---------------------------- MODULE Spec2Model ----------------------------
(***************************************************************************)
(* Model of the Pokemon Cable Club matchmaking / relay server.             *)
(*                                                                         *)
(* A byte string is modelled as a sequence of atoms: every atom is one     *)
(* field of a comma separated record (a TLA+ string) or the line           *)
(* terminator NL.  The character level codec lives in its own definitions. *)
(* One step of the model is one iteration of one of the loops of           *)
(* Server.loop: select, one socket of the error / write / read lists, or   *)
(* one pass of the line splitting loop (one handler invocation).           *)
(***************************************************************************)
EXTENDS Integers, Sequences, FiniteSets, TLC

\* ------------------------------------------------------------------ bounds
MaxSock   == 3     \* sockets the listener accepts in one run
MaxReady  == 2     \* sockets select() reports ready in one tick (all lists)
MaxEvents == 6     \* ready sockets select() reports in one run (all ticks)

\* --------------------------------------------------------------- constants
RULES_REFRESH_RATE == 60
MAXIMUM_LEVEL == 100

NL == "\n"
Listener == 0
NoSock == 0 - 1
Sock == 1..MaxSock
ExcObj == "<exception object>"    \* the reason passed by disconnect(s, e)

VARIABLES
    loop_count,    \* Server.loop_count
    rules_files,   \* Server.rules_files: sequence of [name, mtime]
    rules,         \* Server.rules: sequence of rules (sequences of fields)
    rules_dir,     \* the rules directory on disk
    clients,       \* keys of Server.clients in insertion order
    st,            \* the State object of every socket
    sock,          \* the socket objects: closed flag, bytes taken by the kernel
    naccepted,     \* number of sockets accept() has returned
    errors,        \* rest of the errors list of the current tick
    writeable,     \* rest of the writeable list of the current tick
    readable,      \* rest of the readable list of the current tick
    cur,           \* socket whose recv() result is being split into lines
    recv_buffer,   \* local recv_buffer of the line splitting loop
    raised,        \* exception that left Server.loop ("" when none)
    chunks,        \* the recv() results the client of each socket produces
    nevents,       \* ready sockets reported so far
    gh,            \* history per socket: state tags, bytes enqueued / sent
    ev,            \* the step that led to this state
    codec,         \* a RecordWriter / RecordParser at work on one record
    validator,     \* a party record and the validator at work on it
    gift,          \* a GiftManager and the request it answers
    iterations     \* number of times Server.loop was entered

vars == <<loop_count, rules_files, rules, rules_dir, clients, st, sock,
          naccepted, errors, writeable, readable, cur, recv_buffer, raised,
          chunks, nevents, gh, ev, codec, validator, gift, iterations>>

\* ----------------------------------------------------------------- helpers
Range(f) == {f[i] : i \in DOMAIN f}

Remove(seq, x) == SelectSeq(seq, LAMBDA y : y # x)

SubList(seq, S) == SelectSeq(seq, LAMBDA y : y \in S)

RECURSIVE Flatten(_)
Flatten(ss) == IF ss = <<>> THEN <<>> ELSE Head(ss) \o Flatten(Tail(ss))

IsPrefix(p, q) == Len(p) <= Len(q) /\ SubSeq(q, 1, Len(p)) = p

\* int(field) and str(i) on the numerals the model uses
Numerals == << <<"0", 0>>, <<"1", 1>>, <<"2", 2>>, <<"3", 3>>, <<"5", 5>>,
               <<"7", 7>>, <<"31", 31>>, <<"42", 42>>, <<"99", 99>>,
               <<"100", 100>>, <<"101", 101>>,
               <<"65538", 65538>>, <<"65578", 65578>>, <<"00", 0>>,
               <<"-1", -1>>, <<"4", 4>>, <<"32", 32>>, <<"252", 252>>,
               <<"253", 253>>, <<"255", 255>>, <<"256", 256>> >>

\* numerals of integers beyond 2^31, with the integer divided by 2^16
WideNumerals == << <<"4294967295", 65535>>, <<"4294967296", 65536>> >>

IsWide(f) == \E i \in DOMAIN WideNumerals : WideNumerals[i][1] = f

IsInt(f) == IsWide(f) \/ \E i \in DOMAIN Numerals : Numerals[i][1] = f

IntOf(f) == Numerals[CHOOSE i \in DOMAIN Numerals : Numerals[i][1] = f][2]

\* int(field) >> 16
HighWord(f) ==
    IF IsWide(f)
    THEN WideNumerals[CHOOSE i \in DOMAIN WideNumerals : WideNumerals[i][1] = f][2]
    ELSE IntOf(f) \div 65536

StrOf(n) == Numerals[CHOOSE i \in DOMAIN Numerals :
                        /\ Numerals[i][2] = n
                        /\ \A j \in 1..(i - 1) : Numerals[j][2] # n][1]

\* models.py
\* a public id that is the whole trainer id
public_idWhole(id_) == id_

public_id(id_) == id_ % 65536

Connecting == [tag |-> "Connecting"]

Finding(peer_id, name, id, trainertype, party, win_text, lose_text) ==
    [tag |-> "Finding", peer_id |-> peer_id, name |-> name, id |-> id,
     trainertype |-> trainertype, party |-> party, win_text |-> win_text,
     lose_text |-> lose_text]

Connected(peer) == [tag |-> "Connected", peer |-> peer]

State == [state |-> Connecting, send_buffer |-> <<>>, recv_buffer |-> <<>>]

\* protocol.py: a line, seen as its fields
RecordParser(line) == IF line = <<>> THEN <<"">> ELSE line

\* the server state the handlers work on, with the log of the step
Machine == [clients |-> clients, st |-> st, sock |-> sock, gh |-> gh,
            calls |-> <<>>, discs |-> <<>>]

InMap(M) == Range(M.clients)

\* RecordWriter.send_now on socket s: FALSE when it raises
SendNowWorks(s, reason, bad) == reason # ExcObj /\ s \notin bad


SetState(M, s, state) ==
    [M EXCEPT !.st[s].state = state,
              !.gh[s].tags = Append(@, state.tag),
              !.gh[s].find = IF state.tag = "Finding" THEN state ELSE @]

Enqueue(M, s, bytes) ==
    [M EXCEPT !.st[s].send_buffer = @ \o bytes, !.gh[s].enq = @ \o bytes]

\* ------------------------------------------------------ Server.disconnect
DisconnectRecord(reason) == <<"disconnect", reason, NL>>

\* what the call does to the socket: send_now, then close; an exception of
\* send_now skips the close
DisconnectSocket(M, s, reason, bad) ==
    IF SendNowWorks(s, reason, bad)
    THEN [M EXCEPT !.sock[s].wire = @ \o DisconnectRecord(reason),
                   !.sock[s].closed = TRUE]
    ELSE M

\* an except branch that goes on to the final record although pop failed
DisconnectAbsentSends(M, s, reason, bad) ==
    [M EXCEPT !.sock[s].wire = @ \o DisconnectRecord(reason)]

\* lines 160-163: self.clients.pop(s) raises KeyError, nothing else is done
DisconnectAbsent(M, s, reason, bad) == M

\* a disconnect that leaves the peer of a Connected connection alone
disconnectAlone(M, s, reason, bad) ==
    LET entry == [s |-> s, reason |-> reason,
                  was |-> IF s \in InMap(M) THEN M.st[s].state.tag ELSE "absent",
                  peer |-> IF s \in InMap(M) /\ M.st[s].state.tag = "Connected"
                           THEN M.st[s].state.peer ELSE NoSock]
        M0 == [M EXCEPT !.discs = Append(@, entry)]
    IN  IF s \notin InMap(M)
        THEN DisconnectAbsent(M0, s, reason, bad)
        ELSE DisconnectSocket([M0 EXCEPT !.clients = Remove(@, s)], s, reason, bad)

RECURSIVE disconnect(_, _, _, _)
disconnect(M, s, reason, bad) ==
    LET entry == [s |-> s, reason |-> reason,
                  was |-> IF s \in InMap(M) THEN M.st[s].state.tag ELSE "absent",
                  peer |-> IF s \in InMap(M) /\ M.st[s].state.tag = "Connected"
                           THEN M.st[s].state.peer ELSE NoSock]
        M0 == [M EXCEPT !.discs = Append(@, entry)]
    IN  IF s \notin InMap(M)
        THEN DisconnectAbsent(M0, s, reason, bad)
        ELSE LET M1 == [M0 EXCEPT !.clients = Remove(@, s)]
                 M2 == DisconnectSocket(M1, s, reason, bad)
             IN  IF M.st[s].state.tag = "Connected"
                 THEN disconnect(M2, M.st[s].state.peer, "peer disconnected", bad)
                 ELSE M2

\* --------------------------------------------------------- Server.connect
write_server_rules == <<StrOf(Len(rules))>> \o Flatten(rules)

FoundRecord(number, peer_state) ==
    <<"found", StrOf(number), peer_state.name, peer_state.trainertype,
      StrOf(peer_state.win_text), StrOf(peer_state.lose_text)>>
    \o peer_state.party \o write_server_rules \o <<NL>>

\* a pass that writes the data of the side the record goes to
ConnectSideOwn(M, number, a, b) ==
    IF a \notin InMap(M) \/ b \notin InMap(M)
    THEN [m |-> M, exc |-> TRUE]
    ELSE IF M.st[b].state.tag # "Finding" \/ M.st[a].state.tag # "Finding"
    THEN [m |-> M, exc |-> TRUE]
    ELSE [m |-> Enqueue(M, a, FoundRecord(number, M.st[a].state)),
          exc |-> FALSE]

\* a pass whose lookup of the other side's State does not need the map
ConnectSideNoLookup(M, number, a, b) ==
    IF a \notin InMap(M)
    THEN [m |-> M, exc |-> TRUE]
    ELSE IF M.st[b].state.tag # "Finding"
    THEN [m |-> M, exc |-> TRUE]
    ELSE [m |-> Enqueue(M, a, FoundRecord(number, M.st[b].state)),
          exc |-> FALSE]

\* one pass of the first loop of connect: (number, s, s_) = (number, a, b)
ConnectSide(M, number, a, b) ==
    IF a \notin InMap(M) \/ b \notin InMap(M)
    THEN [m |-> M, exc |-> TRUE]                               \* KeyError
    ELSE IF M.st[b].state.tag # "Finding"
    THEN [m |-> M, exc |-> TRUE]                               \* AttributeError
    ELSE [m |-> Enqueue(M, a, FoundRecord(number, M.st[b].state)),
          exc |-> FALSE]

\* the second pass of the first loop, after a first pass that ended as r
ConnectSecond(r, s, s_) == IF r.exc THEN r ELSE ConnectSide(r.m, 1, s, s_)

\* a second loop that forgets the state of the waiting side
ConnectStatesOneSided(r, s, s_) ==
    IF r.exc THEN r
    ELSE [m |-> SetState(r.m, s, Connected(s_)), exc |-> FALSE]

\* a second loop that runs over every waiting connection of the map
ConnectStatesAll(r, s, s_) ==
    IF r.exc THEN r
    ELSE [m |-> [SetState(SetState(r.m, s_, Connected(s)), s, Connected(s_))
                    EXCEPT !.st = [z \in DOMAIN @ |->
                        IF z \in InMap(r.m) /\ @[z].state.tag = "Finding"
                        THEN [@[z] EXCEPT !.state = Connected(s)]
                        ELSE @[z]]],
          exc |-> FALSE]

\* lines 148-150: the second loop, after a first loop that ended as r
ConnectStates(r, s, s_) ==
    IF r.exc
    THEN r
    ELSE [m |-> SetState(SetState(r.m, s_, Connected(s)), s, Connected(s_)),
          exc |-> FALSE]

ConnectRun(M, s, s_) ==
    ConnectStates(ConnectSecond(ConnectSide(M, 0, s_, s), s, s_), s, s_)

TagOf(M, s) == IF s \in InMap(M) THEN M.st[s].state.tag ELSE "absent"

\* the call as the history keeps it: r is how connect(s, s_) ended from M
Logged(r, M, s, s_) ==
    [m |-> [r.m EXCEPT !.calls = Append(@,
                [x |-> s, y |-> s_, ok |-> ~r.exc,
                 xtag |-> TagOf(M, s), ytag |-> TagOf(M, s_),
                 ybefore |-> M.st[s_].state,
                 xafter |-> r.m.st[s].state, yafter |-> r.m.st[s_].state,
                 xbuf |-> M.st[s].send_buffer, ybuf |-> M.st[s_].send_buffer,
                 xbufafter |-> r.m.st[s].send_buffer,
                 ybufafter |-> r.m.st[s_].send_buffer,
                 wrote |-> r.m.sock # M.sock,
                 frame |-> /\ r.m.clients = M.clients
                           /\ \A z \in InMap(M) \ {s, s_} :
                                  r.m.st[z] = M.st[z]])],
     exc |-> r.exc]

connect(M, s, s_) == Logged(ConnectRun(M, s, s_), M, s, s_)

\* ------------------------------------------------------------ the handlers
\* the scan without its st is not st_ test
MatchWithSelf(M, s, s_, peer_id, id) ==
    /\ M.st[s_].state.tag = "Finding"
    /\ public_id(M.st[s_].state.id) = peer_id
    /\ M.st[s_].state.peer_id = public_id(id)

\* the scan without the test of the peer id the other side seeks
MatchOneWay(M, s, s_, peer_id, id) ==
    /\ s # s_
    /\ M.st[s_].state.tag = "Finding"
    /\ public_id(M.st[s_].state.id) = peer_id

Match(M, s, s_, peer_id, id) ==
    /\ s # s_
    /\ M.st[s_].state.tag = "Finding"
    /\ public_id(M.st[s_].state.id) = peer_id
    /\ M.st[s_].state.peer_id = public_id(id)

\* for s_, st_ in self.clients.items(): from position i of the key list
RECURSIVE Scan(_, _, _, _, _, _)

\* the loop goes on after an iteration that ended as r, unless it raised
ScanOn(r, s, keys, i, peer_id, id) ==
    IF r.exc THEN r ELSE Scan(r.m, s, keys, i + 1, peer_id, id)

Scan(M, s, keys, i, peer_id, id) ==
    IF i > Len(keys)
    THEN [m |-> M, exc |-> FALSE]
    ELSE ScanOn(IF Match(M, s, keys[i], peer_id, id)
                THEN connect(M, s, keys[i])
                ELSE [m |-> M, exc |-> FALSE],
                s, keys, i, peer_id, id)

\* the record.int() calls of handle_connecting raise on these lines
FindRaises(fields) ==
    \/ Len(fields) < 8
    \/ ~IsInt(fields[3]) \/ ~IsInt(fields[5])
    \/ ~IsInt(fields[7]) \/ ~IsInt(fields[8])

FindState(fields) ==
    Finding(IntOf(fields[3]), fields[4], IntOf(fields[5]), fields[6],
            SubSeq(fields, 9, Len(fields)), IntOf(fields[7]), IntOf(fields[8]))

handle_connecting(M, s, message, bad) ==
    LET fields == RecordParser(message)
    IN  IF fields[1] # "find"
        THEN [m |-> disconnect(M, s, "bad assert", bad), exc |-> FALSE]
        ELSE IF FindRaises(fields)
        THEN [m |-> M, exc |-> TRUE]
        ELSE Scan(SetState(M, s, FindState(fields)), s, M.clients, 1,
                  FindState(fields).peer_id, FindState(fields).id)

handle_finding(M, s, message) == [m |-> M, exc |-> FALSE]

\* a relay that leaves out the newline
handle_connectedNoNewline(M, s, message) ==
    LET peer == M.st[s].state.peer
    IN  IF peer \in InMap(M)
        THEN [m |-> Enqueue(M, peer, message), exc |-> FALSE]
        ELSE [m |-> M, exc |-> FALSE]

handle_connected(M, s, message) ==
    LET peer == M.st[s].state.peer
    IN  IF peer \in InMap(M)
        THEN [m |-> Enqueue(M, peer, message \o <<NL>>), exc |-> FALSE]
        ELSE [m |-> M, exc |-> FALSE]

\* an except clause that only logs the exception
CaughtLogged(r, s, bad) == r.m

\* lines 121-123: the except clause around a handler that ended as r
Caught(r, s, bad) ==
    IF r.exc THEN disconnect(r.m, s, "server error", bad) ELSE r.m

\* a handler table that sends every line to handle_connecting
DispatchAlwaysConnecting(M, s, message, bad) ==
    Caught(handle_connecting(M, s, message, bad), s, bad)

\* self.handlers[type(st.state)](s, st, message) inside the try of loop
Dispatch(M, s, message, bad) ==
    Caught(CASE M.st[s].state.tag = "Connecting" -> handle_connecting(M, s, message, bad)
             [] M.st[s].state.tag = "Finding"    -> handle_finding(M, s, message)
             [] M.st[s].state.tag = "Connected"  -> handle_connected(M, s, message),
           s, bad)


\* ---------------------------------------------------------------- rules.py
FileKeys(files) == {files[i].name : i \in DOMAIN files}

MTime(files, k) == files[CHOOSE i \in DOMAIN files : files[i].name = k].mtime

DirHash(dir) == [i \in DOMAIN dir.files |->
                    [name |-> dir.files[i].name, mtime |-> dir.files[i].mtime]]

\* a detector that compares the file names only
find_changed_filesNamesOnly(dir, old_files_hash) ==
    IF dir.isdir /\ FileKeys(old_files_hash) # FileKeys(DirHash(dir))
    THEN [changed |-> TRUE, files |-> DirHash(dir)]
    ELSE [changed |-> FALSE, files |-> old_files_hash]

find_changed_files(dir, old_files_hash) ==
    IF dir.isdir
    THEN LET new_files_hash == DirHash(dir)
             changed ==
                 \/ FileKeys(old_files_hash) # FileKeys(new_files_hash)
                 \/ \E k \in FileKeys(old_files_hash) \cap FileKeys(new_files_hash) :
                        MTime(old_files_hash, k) # MTime(new_files_hash, k)
         IN  IF changed
             THEN [changed |-> TRUE, files |-> new_files_hash]
             ELSE [changed |-> FALSE, files |-> old_files_hash]
    ELSE [changed |-> FALSE, files |-> old_files_hash]

RECURSIVE RuleOfLines(_, _)
RuleOfLines(lines, num) ==
    IF lines = <<>>
    THEN <<>>
    ELSE (IF num = 3 THEN Head(lines).parts ELSE <<Head(lines).text>>)
         \o RuleOfLines(Tail(lines), num + 1)

FileLines(dir, name) ==
    dir.files[CHOOSE i \in DOMAIN dir.files : dir.files[i].name = name].lines

\* a load that does not start from an empty list: the rules of the start
\* directory stay in front of the rules read
load_rules_filesKeeping(dir, files_hash) ==
    (IF dir.files = << [name |-> "single.txt", mtime |-> 1,
                        lines |-> << [text |-> "r", parts |-> <<"r">>] >>] >>
     THEN <<>> ELSE << <<"r">> >>)
    \o [i \in DOMAIN files_hash |-> RuleOfLines(FileLines(dir, files_hash[i].name), 0)]

load_rules_files(dir, files_hash) ==
    [i \in DOMAIN files_hash |-> RuleOfLines(FileLines(dir, files_hash[i].name), 0)]

\* the directory the server is started on
StartDir == [isdir |-> TRUE,
             files |-> << [name |-> "single.txt", mtime |-> 1,
                           lines |-> << [text |-> "r", parts |-> <<"r">>] >>] >>]

\* ------------------------------------------------------------ Server.loop
\* the connections the scan of handle_connecting can pair s with, when
\* message is a find line
Qualifies(s, peer_id, id, s_) ==
    /\ s_ # s
    /\ st[s_].state.tag = "Finding"
    /\ st[s_].state.id % 65536 = peer_id
    /\ st[s_].state.peer_id = id % 65536

IsFind(message) == Len(message) >= 8 /\ message[1] = "find" /\ ~FindRaises(message)

Candidates(s, message) ==
    IF IsFind(message)
    THEN SelectSeq(clients, LAMBDA s_ :
            Qualifies(s, IntOf(message[3]), IntOf(message[5]), s_))
    ELSE <<>>

\* the step taken: the operation, its socket and that socket's state tag
\* before the step, the bytes it handled, the candidates of a find, and the
\* connect and disconnect calls it made
Event(op, s, msg, M) ==
    [op |-> op, s |-> s, msg |-> msg,
     was |-> IF s \in Sock THEN TagOf(Machine, s) ELSE "absent",
     cands |-> IF op = "Connecting" THEN Candidates(s, msg) ELSE <<>>,
     calls |-> M.calls, discs |-> M.discs]

Commit(M) ==
    /\ clients' = M.clients
    /\ st' = M.st
    /\ sock' = M.sock
    /\ gh' = M.gh

\* the step ends with the machine as M
Finish(op, s, msg, M) == Commit(M) /\ ev' = Event(op, s, msg, M)

\* the initial value of the objects of a socket
NoState == State
NoSocket == [closed |-> FALSE, wire |-> <<>>]
NoHistory == [tags |-> <<>>, find |-> [tag |-> "none"], enq |-> <<>>,
              sent |-> <<>>, relayed |-> <<>>, stream |-> <<>>, lines |-> <<>>]

\* once loop returns, nothing refers to the State and the socket of a
\* connection that left the map: the objects are reclaimed (which closes
\* the socket), and the model keeps one value for them
Reclaimed(f, none) == [s \in Sock |-> IF s \in Range(clients) THEN f[s] ELSE none]

Idle == errors = <<>> /\ writeable = <<>> /\ readable = <<>> /\ cur = NoSock

\* a refresh tick that sets the counter to 1 before the increment
NextCountFromOne(refresh, count) == (IF refresh THEN 1 ELSE count) + 1

\* lines 67-68: the counter after the refresh block and the increment
NextCount(refresh, count) == (IF refresh THEN 0 ELSE count) + 1

\* line 62: the test that guards the call of find_changed_files
DetectorInvoked == (loop_count % RULES_REFRESH_RATE) = 0

\* lines 62-68: the rule refresh at the start of Server.loop
Refresh ==
    LET refresh == DetectorInvoked
        found == find_changed_files(rules_dir, rules_files)
    IN  /\ rules_files' = IF refresh /\ found.changed THEN found.files
                          ELSE rules_files
        /\ rules' = IF refresh /\ found.changed
                    THEN load_rules_files(rules_dir, found.files)
                    ELSE rules
        /\ loop_count' = NextCount(refresh, loop_count)
        /\ iterations' = iterations + 1

\* lines 62-74: the rule refresh and select()
Select ==
    /\ raised = "" /\ Idle
    /\ Refresh
    /\ LET reads == clients \o <<Listener>>
           writes == SelectSeq(clients, LAMBDA s : st[s].send_buffer # <<>>)
       IN  \E R \in SUBSET Range(reads), W \in SUBSET Range(writes),
              E \in SUBSET Range(reads) :
               /\ Cardinality(R) + Cardinality(W) + Cardinality(E) \in 1..MaxReady
               /\ nevents' = nevents + Cardinality(R) + Cardinality(W) + Cardinality(E)
               /\ nevents' <= MaxEvents
               /\ Listener \in R => naccepted < MaxSock
               /\ readable' = SubList(reads, R)
               /\ writeable' = SubList(writes, W)
               /\ errors' = SubList(reads, E)
    /\ st' = Reclaimed(st, NoState)
    /\ sock' = Reclaimed(sock, NoSocket)
    /\ gh' = Reclaimed(gh, NoHistory)
    /\ ev' = Event("select", NoSock, <<>>, Machine)
    /\ UNCHANGED <<rules_dir, clients, naccepted, cur, recv_buffer, raised,
                   chunks, codec, validator, gift>>

\* lines 77-81: one socket of the errors list
HandleError ==
    /\ raised = "" /\ errors # <<>>
    /\ LET s == Head(errors)
       IN  IF s = Listener
           THEN /\ raised' = "error on listening socket"
                /\ ev' = Event("error", s, <<>>, Machine)
                /\ UNCHANGED <<clients, st, sock, gh>>
           ELSE \E bad \in SUBSET InMap(Machine) :
                  /\ Finish("error", s, <<>>,
                            disconnect(Machine, s, "unknown error", bad))
                  /\ UNCHANGED raised
    /\ errors' = Tail(errors)
    /\ UNCHANGED <<codec, validator, gift, iterations, chunks, nevents, loop_count, rules_files, rules, rules_dir, naccepted,
                   writeable, readable, cur, recv_buffer>>

\* the byte counts socket.send may report for a buffer
SendCounts(buf) == {n \in 1..Len(buf) : n = 1 \/ n = Len(buf)}

\* a send buffer that is emptied whatever the count socket.send reports
AdvanceAll(send_buffer, n) == <<>>

\* line 91: st.send_buffer[n:]
Advance(send_buffer, n) == SubSeq(send_buffer, n + 1, Len(send_buffer))

\* lines 84-91: one socket of the writeable list
HandleWrite ==
    /\ raised = "" /\ errors = <<>> /\ writeable # <<>>
    /\ LET s == Head(writeable)
       IN  IF s \notin InMap(Machine)
           THEN /\ raised' = "KeyError"                     \* self.clients[s]
                /\ ev' = Event("write", s, <<>>, Machine)
                /\ UNCHANGED <<clients, st, sock, gh>>
           ELSE \/ \E bad \in SUBSET InMap(Machine) :       \* s.send raises e
                      /\ Finish("write", s, <<>>,
                                disconnect(Machine, s, ExcObj, bad))
                      /\ UNCHANGED raised
                \/ \E n \in SendCounts(st[s].send_buffer) :
                      LET out == SubSeq(st[s].send_buffer, 1, n)
                      IN  /\ st' = [st EXCEPT ![s].send_buffer = Advance(@, n)]
                          /\ sock' = [sock EXCEPT ![s].wire = @ \o out]
                          /\ gh' = [gh EXCEPT ![s].sent = @ \o out]
                          /\ ev' = Event("write", s, out, Machine)
                          /\ UNCHANGED <<clients, raised>>
    /\ writeable' = Tail(writeable)
    /\ UNCHANGED <<codec, validator, gift, iterations, chunks, nevents, loop_count, rules_files, rules, rules_dir, naccepted,
                   errors, readable, cur, recv_buffer>>


\* ------------------------------------------------------------ validation.py
\* config.py
POKEMON_MAX_NAME_SIZE == 10
PLAYER_MAX_NAME_SIZE == 10
IV_STAT_LIMIT == 31
EV_LIMIT == 510
EV_STAT_LIMIT == 252
SKETCH_MOVE_IDS == {"SKETCH"}
ESSENTIALS_DELUXE_INSTALLED == FALSE
MUI_MEMENTOS_INSTALLED == FALSE
ZUD_DYNAMAX_INSTALLED == FALSE
PLA_INSTALLED == FALSE
TERA_INSTALLED == FALSE
FOCUS_INSTALLED == FALSE

\* the tables make_party_validator loads from the PBS directory
ability_syms == {"STATIC", "OWNTEMPO"}
move_syms == {"THUNDERSHOCK", "TACKLE", "SKETCH"}
item_syms == {"POTION", "POKEBALL"}

Pokemon(genders, abilities, moves, forms) ==
    [genders |-> genders, abilities |-> abilities, moves |-> moves, forms |-> forms]

Universe == [universe |-> TRUE, members |-> {}]
Forms(S) == [universe |-> FALSE, members |-> S]
InForms(form, forms) == forms.universe \/ form \in forms.members

SpeciesNames == {"PIKACHU", "SMEARGLE", "MAGNEMITE", "PORYGON"}

pokemon_by_name(species) ==
    CASE species = "PIKACHU" ->
            Pokemon({0, 1}, {"STATIC"}, {"THUNDERSHOCK"}, Universe)
      [] species = "SMEARGLE" ->
            Pokemon({0, 1}, {"OWNTEMPO"}, {"SKETCH"}, Forms({0}))
      [] species = "MAGNEMITE" ->
            Pokemon({2}, {}, {"TACKLE", "THUNDERSHOCK"}, Forms({0, 1}))
      [] species = "PORYGON" ->      \* ZAPCANNON is not a section of moves.txt
            Pokemon({2}, {}, {"TACKLE", "ZAPCANNON"}, Universe)

\* len(str) of the names the model uses
StrLen(str) == CASE str = "" -> 0
                 [] str = "Ash" -> 3
                 [] str = "Pika" -> 4
                 [] str = "ElevenChars" -> 11
                 [] OTHER -> 5

\* the record being validated: fields left, errors seen, exception raised,
\* value of the last field read, and the locals species and ev_sum of
\* validate_pokemon
Cursor(fields) == [f |-> fields, err |-> FALSE, exc |-> FALSE, v |-> "",
                   species |-> "", ev_sum |-> 0]

Raise(c) == [c EXCEPT !.exc = TRUE]

\* RecordParser.str / int / bool / bool_or_none / int_or_none
Pop(c, ok(_), val(_)) ==
    IF c.exc THEN c
    ELSE IF c.f = <<>> THEN Raise(c)                              \* IndexError
    ELSE IF ~ok(Head(c.f)) THEN Raise([c EXCEPT !.f = Tail(@)])   \* ValueError, KeyError
    ELSE [c EXCEPT !.f = Tail(@), !.v = val(Head(c.f))]

RdStr(c) == Pop(c, LAMBDA x : TRUE, LAMBDA x : x)
RdInt(c) == Pop(c, LAMBDA x : IsInt(x), LAMBDA x : IntOf(x))
\* record.int() of a field that is only tested against ~0xFFFFFFFF: v is
\* the integer divided by 2^16
RdIntHigh(c) == Pop(c, LAMBDA x : IsInt(x), LAMBDA x : HighWord(x))
RdBool(c) == Pop(c, LAMBDA x : x \in {"true", "false"}, LAMBDA x : x = "true")
RdBoolOrNone(c) == Pop(c, LAMBDA x : x \in {"true", "false", ""}, LAMBDA x : x)
RdIntOrNone(c) == Pop(c, LAMBDA x : x = "" \/ IsInt(x),
                      LAMBDA x : IF x = "" THEN 0 ELSE IntOf(x))

\* errors.append(...) unless the check holds
Check(c, holds) == IF c.exc \/ holds THEN c ELSE [c EXCEPT !.err = TRUE]

RECURSIVE SkipInts(_, _)
SkipInts(c, n) == IF n <= 0 \/ c.exc THEN c ELSE SkipInts(RdInt(c), n - 1)

RECURSIVE SkipStrs(_, _)
SkipStrs(c, n) == IF n <= 0 \/ c.exc THEN c ELSE SkipStrs(RdStr(c), n - 1)

\* In the operators below r is the record right after the field named was
\* read, with the value of the field in r.v.

\* lines 74-78: species_ is None for a name the table does not hold
SpeciesRead(r) ==
    IF r.exc THEN r ELSE Check([r EXCEPT !.species = r.v], r.v \in SpeciesNames)

\* a level test without its lower end
LevelOkFromZero(level) == level <= MAXIMUM_LEVEL

\* line 81
LevelOk(level) == 1 <= level /\ level <= MAXIMUM_LEVEL

\* lines 80-83
LevelRead(r) == Check(r, LevelOk(r.v))

\* line 86: owner_id & ~0xFFFFFFFF is zero, on the integer divided by 2^16
OwnerIdOk(high) == 0 <= high /\ high < 65536

\* lines 85-88
OwnerIdRead(r) == Check(r, OwnerIdOk(r.v))

\* lines 89-92
OwnerNameRead(r) == Check(r, StrLen(r.v) <= PLAYER_MAX_NAME_SIZE)

\* lines 93-96
OwnerGenderRead(r) == Check(r, r.v \in {0, 1})

\* lines 99-102: species_.forms of a species that is None raises
\* AttributeError
FormRead(r) ==
    IF r.exc THEN r
    ELSE IF r.species \notin SpeciesNames THEN Raise(r)
    ELSE Check(r, InForms(r.v, pokemon_by_name(r.species).forms))

\* lines 103-106 and 191-194
ItemRead(r) == Check(r, r.v = "" \/ r.v \in item_syms)

\* line 107
can_use_sketch(species_) == SKETCH_MOVE_IDS \cap species_.moves # {}

\* lines 112-118
MoveOk(move, species_, sketch) ==
    \/ move = ""
    \/ IF sketch THEN move \in move_syms ELSE move \in species_.moves

\* lines 111-118 and 128-135
MoveRead(r) ==
    IF r.exc THEN r
    ELSE Check(r, MoveOk(r.v, pokemon_by_name(r.species),
                         can_use_sketch(pokemon_by_name(r.species))))

\* lines 119-122
PpupRead(r) == Check(r, 0 <= r.v /\ r.v <= 3)

\* lines 123-124
Mastery(c) == IF PLA_INSTALLED THEN RdBoolOrNone(c) ELSE c

\* lines 110-124
RECURSIVE CurrentMoves(_, _)
CurrentMoves(c, n) ==
    IF n <= 0 \/ c.exc THEN c
    ELSE CurrentMoves(Mastery(PpupRead(RdInt(MoveRead(RdStr(c))))), n - 1)

\* line 110: for _ in range(record.int())
CurrentMovesRead(r) == IF r.exc THEN r ELSE CurrentMoves(r, r.v)

\* lines 127-135 and 139-147
RECURSIVE MoveList(_, _)
MoveList(c, n) ==
    IF n <= 0 \/ c.exc THEN c ELSE MoveList(MoveRead(RdStr(c)), n - 1)

\* lines 127 and 139: for _ in range(record.int())
MoveListRead(r) == IF r.exc THEN r ELSE MoveList(r, r.v)

\* lines 138-147
Mastered(c) == IF PLA_INSTALLED THEN MoveListRead(RdInt(c)) ELSE c

\* lines 149-152
GenderRead(r) ==
    IF r.exc THEN r ELSE Check(r, r.v \in pokemon_by_name(r.species).genders)

\* lines 154-161
AbilityRead(r) == Check(r, r.v = "" \/ r.v \in ability_syms)

\* lines 169-172
IvRead(r) == Check(r, 0 <= r.v /\ r.v <= IV_STAT_LIMIT)

\* lines 174-178
EvRead(r) ==
    IF r.exc THEN r
    ELSE Check([r EXCEPT !.ev_sum = @ + r.v], 0 <= r.v /\ r.v <= EV_STAT_LIMIT)

\* lines 168-181
RECURSIVE Stats(_, _)
Stats(c, n) ==
    IF c.exc THEN c
    ELSE IF n <= 0 THEN Check(c, 0 <= c.ev_sum /\ c.ev_sum <= EV_LIMIT)
    ELSE Stats(EvRead(RdInt(RdBoolOrNone(IvRead(RdInt(c))))), n - 1)

\* lines 167-181
StatsFrom(c) == IF c.exc THEN c ELSE Stats([c EXCEPT !.ev_sum = 0], 6)

\* lines 183-186
HappinessRead(r) == Check(r, 0 <= r.v /\ r.v <= 255)

\* lines 187-190
NameRead(r) == Check(r, StrLen(r.v) <= POKEMON_MAX_NAME_SIZE)

\* lines 214-215
RibbonsRead(r) == IF r.exc THEN r ELSE SkipStrs(r, r.v)

\* lines 218-229
Scale(c) == IF ESSENTIALS_DELUXE_INSTALLED \/ MUI_MEMENTOS_INSTALLED
            THEN RdInt(c) ELSE c
Memento(c) == IF MUI_MEMENTOS_INSTALLED THEN RdStr(c) ELSE c
Dynamax(c) == IF ZUD_DYNAMAX_INSTALLED THEN RdBool(RdBool(RdInt(c))) ELSE c
Tera(c) == IF TERA_INSTALLED THEN RdStr(c) ELSE c
Focus(c) == IF FOCUS_INSTALLED THEN RdStr(c) ELSE c
Extensions(c) == Focus(Tera(Dynamax(Memento(Scale(c)))))

\* lines 237-243: the fields that follow a species of the mail
IconRead(r) ==
    IF r.exc \/ r.v = 0 THEN r ELSE RdBool(RdBool(RdInt(RdBool(RdInt(r)))))

\* lines 236-243: one icon block of the mail
MailIcon(c) == IconRead(RdIntOrNone(c))

\* lines 232-261
MailRead(r) ==
    IF r.exc \/ ~r.v THEN r
    ELSE MailIcon(MailIcon(MailIcon(RdStr(RdStr(RdStr(r))))))

Mail(c) == MailRead(RdBool(c))

\* lines 74-106: from the species to the item
Identity(c) ==
    ItemRead(RdStr(FormRead(RdInt(RdInt(OwnerGenderRead(RdInt(
        OwnerNameRead(RdStr(OwnerIdRead(RdIntHigh(RdInt(
            LevelRead(RdInt(SpeciesRead(RdStr(c))))))))))))))))

\* lines 110-164: from the moves to the nature ids
Battle(c) ==
    RdStr(RdStr(RdIntOrNone(AbilityRead(RdStr(RdBoolOrNone(GenderRead(RdInt(
        Mastered(MoveListRead(RdInt(CurrentMovesRead(RdInt(c)))))))))))))

\* lines 167-211: the stats, then from the happiness to the contest stats
Body6(c) ==
    SkipInts(RdInt(RdInt(RdStr(RdInt(RdInt(RdInt(RdInt(
        ItemRead(RdStr(NameRead(RdStr(HappinessRead(RdInt(
            StatsFrom(c)))))))))))))), 6)

RECURSIVE validate_pokemon(_)

\* lines 264-266: r is the record after the fused flag was read
FusedRead(r) == IF r.exc \/ ~r.v THEN r ELSE validate_pokemon(r)

\* lines 73-267
validate_pokemon(c) ==
    FusedRead(RdBool(Mail(Extensions(RibbonsRead(RdInt(
        Body6(Battle(Identity(c)))))))))

RECURSIVE Party(_, _)
Party(c, n) == IF n <= 0 \/ c.exc THEN c ELSE Party(validate_pokemon(c), n - 1)

\* lines 71-72 and 269: the loop over the Pokemon, after the count was read
\* as c
PartyFrom(c) == IF c.exc THEN c ELSE Party(c, c.v)

\* lines 70-275: the record after the try block
ValidatorRun(record) == PartyFrom(RdInt(Cursor(record)))

\* a validator without its except clause
PartyVerdictUncaught(c) ==
    IF c.exc THEN "raised"
    ELSE IF c.err \/ c.f # <<>> THEN "fail" ELSE "pass"

\* lines 271-280: errors is empty unless a check failed, fields were left
\* over or an exception was caught
PartyVerdict(c) == IF c.exc \/ c.err \/ c.f # <<>> THEN "fail" ELSE "pass"

\* lines 68-280: TRUE when the party passes
validate_party(record) == PartyVerdict(ValidatorRun(record)) = "pass"

\* ------------------------------------------------- what the clients send
FindLine(peer_id, name, id, party) ==
    <<"find", "v21", peer_id, name, id, "Youngster", "0", "0">> \o party

EmptyParty == <<"0">>

\* one Pokemon of the party record, all fields valid but possibly the level
PikachuRecord(level) ==
    <<"PIKACHU", level, "7", "65538", "Ash", "0", "0", "0", "",
      "1", "THUNDERSHOCK", "0",
      "0",
      "0", "false", "STATIC", "", "0", "0",
      "31", "", "0", "31", "", "0", "31", "", "0",
      "31", "", "0", "31", "", "0", "31", "", "0",
      "100", "Pika", "POKEBALL", "0", "0",
      "0", "0", "", "0", "0",
      "0", "0", "0", "0", "0", "0",
      "0",
      "false", "false">>

GoodParty == <<"1">> \o PikachuRecord("5")
Level101Party == <<"1">> \o PikachuRecord("101")

LineA == FindLine("42", "Ash", "65538", EmptyParty)   \* public id 2, seeks 42
LineB == FindLine("2", "Gary", "65578", EmptyParty)   \* public id 42, seeks 2
LineC == FindLine("2", "Cid", "42", EmptyParty)       \* public id 42, seeks 2
LineSelf == FindLine("7", "Solo", "7", EmptyParty)    \* seeks its own public id
LineHello == <<"hello">>
LineBadInt == <<"find", "v21", "x", "Ash", "65538", "Youngster", "0", "0", "0">>
LineShort == <<"find", "v21", "2">>
LineMsg == <<"attack", "tackle">>
LineE == FindLine("99", "Eve", "42", EmptyParty)      \* public id 42, seeks 99
LineBig == FindLine("65538", "Big", "42", EmptyParty) \* public id 42, seeks 65538
LineALow == FindLine("42", "Ash", "2", EmptyParty)    \* LineA, id without high bits
LineBLow == FindLine("2", "Gary", "42", EmptyParty)   \* LineB, id without high bits

LineD == FindLine("2", "Dee", "42", Level101Party)  \* public id 42, seeks 2

Line(l) == l \o <<NL>>

\* what the client behind each socket sends in one run
Cast(first, second, third, rest) ==
    [s \in Sock |-> CASE s = 1 -> first [] s = 2 -> second [] s = 3 -> third
                      [] OTHER -> rest]

\* mutually seeking players and a second candidate; malformed lines; a player
\* seeking itself, a party that does not validate and lines split over chunks
Casts == { Cast({Line(LineA), Line(LineMsg)}, {Line(LineB), Line(LineMsg)},
                {Line(LineC), Line(LineBig)}, {Line(LineB)}),
           Cast({Line(LineHello), Line(LineHello) \o Line(LineA)},
                {Line(LineB), Line(LineBadInt)}, {Line(LineShort), Line(LineB)},
                {Line(LineHello)}),
           Cast({Line(LineSelf), <<"attack">>, <<"tackle", NL>>},
                {Line(LineD), Line(LineE)},
                {Line(LineA) \o Line(LineMsg)}, {Line(LineSelf)}) }

ReadTurn == raised = "" /\ errors = <<>> /\ writeable = <<>>
            /\ readable # <<>> /\ cur = NoSock

\* lines 95-100: the listener is readable
Accept ==
    /\ ReadTurn /\ Head(readable) = Listener
    /\ naccepted < MaxSock
    /\ LET s == naccepted + 1
       IN  /\ naccepted' = s
           /\ clients' = Append(clients, s)
           /\ st' = [st EXCEPT ![s] = State]
           /\ gh' = [gh EXCEPT ![s].tags = <<"Connecting">>]
           /\ ev' = Event("accept", s, <<>>, Machine)
    /\ readable' = Tail(readable)
    /\ UNCHANGED <<codec, validator, gift, iterations, chunks, nevents, loop_count, rules_files, rules, rules_dir, sock, errors,
                   writeable, cur, recv_buffer, raised>>

\* line 103: the socket left the map earlier in this tick
ReadGone ==
    /\ ReadTurn /\ Head(readable) # Listener
    /\ Head(readable) \notin InMap(Machine)
    /\ raised' = "KeyError"
    /\ ev' = Event("read", Head(readable), <<>>, Machine)
    /\ readable' = Tail(readable)
    /\ UNCHANGED <<codec, validator, gift, iterations, chunks, nevents, loop_count, rules_files, rules, rules_dir, clients, st,
                   sock, naccepted, errors, writeable, cur, recv_buffer, gh>>

\* lines 106-107 and 124-126: recv raises ConnectionResetError or returns b""
ReadClosed ==
    /\ ReadTurn /\ Head(readable) \in InMap(Machine)
    /\ \E reason \in {"unknown error", "client disconnected"} :
       \E bad \in SUBSET InMap(Machine) :
          Finish("closed", Head(readable), <<>>,
                 disconnect(Machine, Head(readable), reason, bad))
    /\ readable' = Tail(readable)
    /\ UNCHANGED <<codec, validator, gift, iterations, chunks, nevents, loop_count, rules_files, rules, rules_dir, naccepted,
                   errors, writeable, cur, recv_buffer, raised>>

\* lines 105 and 109-110: recv returns data
Recv(s, recvd) ==
    /\ cur' = s
    /\ recv_buffer' = st[s].recv_buffer \o recvd
    /\ ev' = Event("recv", s, recvd, Machine)
    /\ UNCHANGED <<loop_count, rules_files, rules, rules_dir, clients, st,
                   sock, naccepted, errors, writeable, raised, chunks, nevents,
                   codec, validator, gift, iterations>>

ReadData ==
    /\ ReadTurn /\ Head(readable) \in InMap(Machine)
    /\ \E recvd \in chunks[Head(readable)] : Recv(Head(readable), recvd)
    /\ readable' = Tail(readable)
    /\ UNCHANGED gh

\* bytes.partition(b"\n")
NewlineAt(buf) ==
    IF \E i \in DOMAIN buf : buf[i] = NL
    THEN CHOOSE i \in DOMAIN buf : buf[i] = NL /\ \A j \in 1..(i - 1) : buf[j] # NL
    ELSE 0

\* a split at the last newline of the buffer
partitionAtLast(buf) ==
    IF \E i \in DOMAIN buf : buf[i] = NL
    THEN LET i == CHOOSE i \in DOMAIN buf :
                      buf[i] = NL /\ \A j \in (i + 1)..Len(buf) : buf[j] # NL
         IN  [message |-> SubSeq(buf, 1, i - 1), sep |-> <<NL>>,
              rest |-> SubSeq(buf, i + 1, Len(buf))]
    ELSE [message |-> buf, sep |-> <<>>, rest |-> <<>>]

partition(buf) ==
    LET i == NewlineAt(buf)
    IN  IF i = 0
        THEN [message |-> buf, sep |-> <<>>, rest |-> <<>>]
        ELSE [message |-> SubSeq(buf, 1, i - 1), sep |-> <<NL>>,
              rest |-> SubSeq(buf, i + 1, Len(buf))]

\* lines 112-116: no newline left, keep the partial message
BufferPartial ==
    /\ raised = "" /\ cur # NoSock
    /\ partition(recv_buffer).sep = <<>>
    /\ st' = [st EXCEPT ![cur].recv_buffer = partition(recv_buffer).message]
    /\ cur' = NoSock
    /\ recv_buffer' = <<>>
    /\ ev' = Event("partial", cur, partition(recv_buffer).message, Machine)
    /\ UNCHANGED <<codec, validator, gift, iterations, chunks, nevents, loop_count, rules_files, rules, rules_dir, clients, sock,
                   naccepted, errors, writeable, readable, raised, gh>>

\* the history of the lines of socket cur, after the handler left M
Traced(M, message, trace) ==
    [M EXCEPT !.gh[cur].lines = IF trace THEN Append(@, message) ELSE @,
              !.gh[cur].relayed = IF st[cur].state.tag = "Connected" /\ cur \in Range(clients)
                                  THEN Append(@, message) ELSE @]

\* lines 112 and 117-123: one complete line goes to the handler of the state
DispatchLine(trace) ==
    /\ raised = "" /\ cur # NoSock
    /\ partition(recv_buffer).sep # <<>>
    /\ \E bad \in SUBSET InMap(Machine) :
          Finish(st[cur].state.tag, cur, partition(recv_buffer).message,
                 Traced(Dispatch(Machine, cur, partition(recv_buffer).message, bad),
                        partition(recv_buffer).message, trace))
    /\ recv_buffer' = partition(recv_buffer).rest
    /\ UNCHANGED <<codec, validator, gift, iterations, chunks, nevents, loop_count, rules_files, rules, rules_dir, naccepted,
                   errors, writeable, readable, cur, raised>>

HandleLine == DispatchLine(FALSE)

\* no record is being written or parsed
\* no party record is being validated
NoParty == [pc |-> "idle", kind |-> "none", lead |-> 0, chain |-> <<>>,
            record |-> <<>>, left |-> <<>>, verdict |-> "none", exc |-> FALSE,
            err |-> FALSE]

\* no gift request is being answered
NoGift == [pc |-> "idle", gifts_data |-> <<>>, today |-> <<1, 1, 1>>,
           level |-> 0, result |-> [found |-> FALSE, body |-> ""]]

NoCodec == [pc |-> "idle", F |-> <<>>, line |-> <<>>, fields |-> <<>>,
            text |-> <<>>]

\* ------------------------------------------------------- Server.__init__
Init ==
    /\ loop_count = 1
    /\ rules_dir = StartDir
    /\ rules_files = find_changed_files(StartDir, <<>>).files
    /\ rules = load_rules_files(StartDir, find_changed_files(StartDir, <<>>).files)
    /\ clients = <<>>
    /\ st = [s \in Sock |-> NoState]
    /\ sock = [s \in Sock |-> NoSocket]
    /\ naccepted = 0
    /\ errors = <<>> /\ writeable = <<>> /\ readable = <<>>
    /\ cur = NoSock
    /\ recv_buffer = <<>>
    /\ raised = ""
    /\ chunks \in Casts
    /\ nevents = 0
    /\ codec = NoCodec /\ validator = NoParty /\ gift = NoGift
    /\ iterations = loop_count - 1
    /\ gh = [s \in Sock |-> NoHistory]
    /\ ev = [op |-> "init", s |-> NoSock, msg |-> <<>>, was |-> "absent",
             cands |-> <<>>, calls |-> <<>>, discs |-> <<>>]

Next ==
    \/ Select
    \/ HandleError
    \/ HandleWrite
    \/ Accept
    \/ ReadGone
    \/ ReadClosed
    \/ ReadData
    \/ BufferPartial
    \/ HandleLine

Spec == Init /\ [][Next]_vars

\* ------------------------------------------------------- rules directory
\* The loop with a rules directory that changes on disk.  The server has been
\* idle for a while (select timed out on every tick so far), so that the
\* tick of the next refresh is near.  The directory is read only at the start
\* of a tick with loop_count % RULES_REFRESH_RATE = 0, and only its state at
\* that moment counts: the changes on disk are taken right before that tick.
TwoDir == [isdir |-> TRUE,
           files |-> << [name |-> "single.txt", mtime |-> 2,
                         lines |-> << [text |-> "r2", parts |-> <<"r2">>] >>],
                        [name |-> "double.txt", mtime |-> 1,
                         lines |-> << [text |-> "n", parts |-> <<"n">>],
                                      [text |-> "d", parts |-> <<"d">>],
                                      [text |-> "", parts |-> <<"">>],
                                      [text |-> "a,b", parts |-> <<"a", "b">>] >>] >>]

EmptyDir == [isdir |-> TRUE, files |-> <<>>]

NoDir == [isdir |-> FALSE, files |-> <<>>]

DirStates == {StartDir, TwoDir, EmptyDir, NoDir}

ChangeRulesTo(dirs) ==
    /\ raised = "" /\ Idle
    /\ loop_count % RULES_REFRESH_RATE = 0
    /\ rules_dir' \in dirs \ {rules_dir}
    /\ ev' = Event("rules", NoSock, <<>>, Machine)
    /\ UNCHANGED <<loop_count, rules_files, rules, clients, st, sock, naccepted,
                   errors, writeable, readable, cur, recv_buffer, raised,
                   chunks, nevents, gh, codec, validator, gift, iterations>>

ChangeRules == ChangeRulesTo(DirStates)

InitRules ==
    /\ loop_count \in (RULES_REFRESH_RATE - 1)..RULES_REFRESH_RATE
    /\ rules_dir = StartDir
    /\ rules_files = find_changed_files(StartDir, <<>>).files
    /\ rules = load_rules_files(StartDir, find_changed_files(StartDir, <<>>).files)
    /\ clients = <<>>
    /\ st = [s \in Sock |-> NoState]
    /\ sock = [s \in Sock |-> NoSocket]
    /\ naccepted = 0
    /\ errors = <<>> /\ writeable = <<>> /\ readable = <<>>
    /\ cur = NoSock
    /\ recv_buffer = <<>>
    /\ raised = ""
    /\ chunks = Cast({Line(LineA), Line(LineMsg)}, {Line(LineB), Line(LineMsg)},
                     {Line(LineC)}, {Line(LineB)})
    /\ nevents = 0
    /\ codec = NoCodec /\ validator = NoParty /\ gift = NoGift
    /\ iterations = loop_count - 1
    /\ gh = [s \in Sock |-> NoHistory]
    /\ ev = [op |-> "init", s |-> NoSock, msg |-> <<>>, was |-> "absent",
             cands |-> <<>>, calls |-> <<>>, discs |-> <<>>]

NextRules == Next \/ ChangeRules

SpecRules == InitRules /\ [][NextRules]_vars

\* ------------------------------------------------------------- the codec
\* protocol.py at the level of characters: a field and a line are sequences
\* of characters, of which the comma and the backslash have a meaning.
Comma == ","
Backslash == "\\"

\* str.replace(old, new) for a one character old
RECURSIVE Replace(_, _, _)
Replace(f, old, new) ==
    IF f = <<>> THEN <<>>
    ELSE (IF Head(f) = old THEN new ELSE <<Head(f)>>) \o Replace(Tail(f), old, new)

\* an escape that leaves the backslashes of the field alone
escapeCommaOnly(f) == Replace(f, Comma, <<Backslash, Comma>>)

\* RecordWriter.escape
escape(f) ==
    Replace(Replace(f, Backslash, <<Backslash, Backslash>>), Comma, <<Backslash, Comma>>)

\* ",".join(...)
RECURSIVE Join(_)
Join(fs) ==
    IF fs = <<>> THEN <<>>
    ELSE IF Len(fs) = 1 THEN Head(fs)
    ELSE Head(fs) \o <<Comma>> \o Join(Tail(fs))

\* the line of RecordWriter.send and send_now, without its newline
RecordLine(fields) == Join([i \in DOMAIN fields |-> escape(fields[i])])

\* the loop of RecordParser.__init__ from character i on
RECURSIVE ParseFrom(_, _, _, _, _)
ParseFrom(line, i, fields, field, esc) ==
    IF i > Len(line)
    THEN Append(fields, field)
    ELSE ParseFrom(line, i + 1,
            IF line[i] = Comma /\ ~esc THEN Append(fields, field) ELSE fields,
            IF line[i] = Comma /\ ~esc THEN <<>>
            ELSE IF line[i] = Backslash /\ ~esc THEN field
            ELSE Append(field, line[i]),
            IF line[i] = Comma /\ ~esc THEN esc
            ELSE line[i] = Backslash /\ ~esc)

\* RecordParser(line).fields, in the order the pops return them
RecordParserFields(line) == ParseFrom(line, 1, <<>>, <<>>, FALSE)

MaxFields == 2
MaxFieldLen == 2

Chars == {"a", Comma, Backslash}

FieldStrings == UNION {[1..n -> Chars] : n \in 0..MaxFieldLen}

FieldSeqs == UNION {[1..n -> FieldStrings] : n \in 0..MaxFields}

ServerVars == <<loop_count, rules_files, rules, rules_dir, clients, st, sock,
                naccepted, errors, writeable, readable, cur, recv_buffer,
                raised, chunks, nevents, gh, ev, iterations>>

InitServer ==
    /\ loop_count = 1
    /\ rules_dir = StartDir
    /\ rules_files = find_changed_files(StartDir, <<>>).files
    /\ rules = load_rules_files(StartDir, find_changed_files(StartDir, <<>>).files)
    /\ clients = <<>>
    /\ st = [s \in Sock |-> NoState]
    /\ sock = [s \in Sock |-> NoSocket]
    /\ naccepted = 0
    /\ errors = <<>> /\ writeable = <<>> /\ readable = <<>>
    /\ cur = NoSock
    /\ recv_buffer = <<>>
    /\ raised = ""
    /\ chunks = [s \in Sock |-> {}]
    /\ nevents = 0
    /\ iterations = 0
    /\ gh = [s \in Sock |-> NoHistory]
    /\ ev = [op |-> "init", s |-> NoSock, msg |-> <<>>, was |-> "absent",
             cands |-> <<>>, calls |-> <<>>, discs |-> <<>>]

MaxText == 4

\* the party part of a find line: the characters after the eighth comma
PartyTexts == UNION {[1..n -> Chars] : n \in 0..MaxText}

\* a find line up to its eighth comma; a run of characters that holds no
\* comma and no backslash is one element of the line
FindHead == <<"find", Comma, "v21", Comma, "2", Comma, "Ash", Comma, "65538",
              Comma, "Youngster", Comma, "0", Comma, "0", Comma>>

\* a writer holding the fields F, or a find line with the party text
InitCodec ==
    /\ InitServer /\ validator = NoParty /\ gift = NoGift
    /\ codec \in {[NoCodec EXCEPT !.pc = "fields", !.F = F] : F \in FieldSeqs}
                \cup {[NoCodec EXCEPT !.pc = "find", !.text = text,
                                       !.line = FindHead \o text] :
                         text \in PartyTexts}

\* RecordWriter.send: the line of the fields
WriteRecord ==
    /\ codec.pc = "fields"
    /\ codec' = [codec EXCEPT !.pc = "line", !.line = RecordLine(codec.F)]
    /\ UNCHANGED <<ServerVars, validator, gift>>

\* RecordParser(line)
ParseRecord ==
    /\ codec.pc = "line"
    /\ codec' = [codec EXCEPT !.pc = "parsed", !.fields = RecordParserFields(codec.line)]
    /\ UNCHANGED <<ServerVars, validator, gift>>

\* server.py:179-193: the parser of handle_connecting, the eight fields it
\* pops, and party = record.raw_all()
ParseFind ==
    /\ codec.pc = "find"
    /\ codec' = [codec EXCEPT
                    !.pc = "party",
                    !.fields = SubSeq(RecordParserFields(codec.line), 9,
                                      Len(RecordParserFields(codec.line)))]
    /\ UNCHANGED <<ServerVars, validator, gift>>

\* server.py:143-145: writer.raw(st_.state.party) and the line of writer.send;
\* codec.line is the part of the line the party fields make
WriteFound ==
    /\ codec.pc = "party"
    /\ codec' = [codec EXCEPT !.pc = "found", !.line = RecordLine(codec.fields)]
    /\ UNCHANGED <<ServerVars, validator, gift>>

NextCodec == WriteRecord \/ ParseRecord \/ ParseFind \/ WriteFound

SpecCodec == InitCodec /\ [][NextCodec]_vars

\* ------------------------------------------------------------ the cadence
\* Server.loop entered again and again on a server without clients, where
\* select() returns after its timeout, while the rules directory changes
MaxIter == 125

InitCadence ==
    /\ InitServer
    /\ codec = NoCodec /\ validator = NoParty /\ gift = NoGift

\* lines 62-74 and 77-94: select() returns three empty lists
Timeout ==
    /\ raised = "" /\ Idle
    /\ iterations < MaxIter
    /\ Refresh
    /\ st' = Reclaimed(st, NoState)
    /\ sock' = Reclaimed(sock, NoSocket)
    /\ gh' = Reclaimed(gh, NoHistory)
    /\ ev' = Event("select", NoSock, <<>>, Machine)
    /\ UNCHANGED <<rules_dir, clients, naccepted, errors, writeable, readable,
                   cur, recv_buffer, raised, chunks, nevents, codec,
                   validator, gift>>

\* the start directory after its file was written again with the same text
TouchedDir == [isdir |-> TRUE,
               files |-> << [name |-> "single.txt", mtime |-> 2,
                             lines |-> << [text |-> "r", parts |-> <<"r">>] >>] >>]

\* the same two files as TwoDir, listed in the other order
SwappedDir == [isdir |-> TRUE, files |-> <<TwoDir.files[2], TwoDir.files[1]>>]

TouchRules == ChangeRulesTo(DirStates \cup {TouchedDir, SwappedDir})

NextCadence == Timeout \/ TouchRules

SpecCadence == InitCadence /\ [][NextCadence]_vars

\* ------------------------------------------------------------ api_server.py
\* A date string YYYY-MM-DD is the triple of its numbers; gifts_data is the
\* list _load_gifts builds, one record per gift file, with the sections of
\* the file as a function from level to body.
MaxFiles == 2

\* the result None of get_gift_for_level, and a body it returns
None == [found |-> FALSE, body |-> ""]
Body(text) == [found |-> TRUE, body |-> text]

LeapYear(y) == (y % 4 = 0 /\ y % 100 # 0) \/ y % 400 = 0

DaysIn(y, m) == IF m = 2 THEN (IF LeapYear(y) THEN 29 ELSE 28)
                ELSE IF m \in {4, 6, 9, 11} THEN 30 ELSE 31

\* lines 112-113: datetime.strptime(text, '%Y-%m-%d') raises ValueError
\* unless the numbers are a date
strptimeRaises(d) ==
    ~(d[1] >= 1 /\ d[2] \in 1..12 /\ d[3] >= 1 /\ d[3] <= DaysIn(d[1], d[2]))

\* date.__le__
DateLe(a, b) ==
    \/ a[1] < b[1]
    \/ a[1] = b[1] /\ a[2] < b[2]
    \/ a[1] = b[1] /\ a[2] = b[2] /\ a[3] <= b[3]

\* a period test that leaves out the two end days
WithinExclusive(init_date, current_date, last_date) ==
    /\ DateLe(init_date, current_date) /\ init_date # current_date
    /\ DateLe(current_date, last_date) /\ current_date # last_date

\* line 116: init_date <= current_date <= last_date
Within(init_date, current_date, last_date) ==
    DateLe(init_date, current_date) /\ DateLe(current_date, last_date)

Max(S) == CHOOSE x \in S : \A y \in S : y <= x

\* lines 123-132: the body of the period for the level asked
LevelBody(gifts, gift_level) ==
    IF gift_level \in DOMAIN gifts
    THEN gifts[gift_level]
    ELSE IF {level \in DOMAIN gifts : level <= gift_level} # {}
    THEN gifts[Max({level \in DOMAIN gifts : level <= gift_level})]
    ELSE gifts[Max(DOMAIN gifts)]

\* lines 110-138: the loop over self.gifts_data from position i
RECURSIVE GiftScan(_, _, _, _)
GiftScan(gifts_data, i, current_date, gift_level) ==
    IF i > Len(gifts_data)
    THEN None
    ELSE IF strptimeRaises(gifts_data[i].initDate)
            \/ strptimeRaises(gifts_data[i].lastDate)
    THEN GiftScan(gifts_data, i + 1, current_date, gift_level)    \* ValueError
    ELSE IF ~Within(gifts_data[i].initDate, current_date, gifts_data[i].lastDate)
    THEN GiftScan(gifts_data, i + 1, current_date, gift_level)
    ELSE IF DOMAIN gifts_data[i].gifts = {}
    THEN GiftScan(gifts_data, i + 1, current_date, gift_level)    \* not gifts
    ELSE Body(LevelBody(gifts_data[i].gifts, gift_level))

get_gift_for_level(gifts_data, current_date, gift_level) ==
    GiftScan(gifts_data, 1, current_date, gift_level)

\* the days the gift files and the clock of the model know; the last one
\* matches the pattern of the date line and is no date
Days == {<<2026, 2, 28>>, <<2026, 3, 1>>}
NoDay == <<2026, 2, 30>>

\* the sections of a gift file
LevelMaps == { <<>>, [level \in {1} |-> "one"],
               [level \in {2, 5} |-> IF level = 2 THEN "two" ELSE "five"] }

GiftFiles == [initDate : Days \cup {NoDay}, lastDate : Days \cup {NoDay},
              gifts : LevelMaps]

\* the levels a request asks for
Levels == {-1, 1, 3, 5, 7}

\* a GiftManager that has loaded its files, and a request for a level
InitGift ==
    /\ InitServer
    /\ codec = NoCodec /\ validator = NoParty
    /\ gift \in {[pc |-> "request", gifts_data |-> data, today |-> today,
                   level |-> level, result |-> None] :
                     data \in UNION {[1..n -> GiftFiles] : n \in 0..MaxFiles},
                     today \in Days, level \in Levels}

\* line 186: gift = self.gift_manager.get_gift_for_level(gift_level)
GetGift ==
    /\ gift.pc = "request"
    /\ gift' = [gift EXCEPT !.pc = "answered",
                            !.result = get_gift_for_level(gift.gifts_data,
                                                          gift.today, gift.level)]
    /\ UNCHANGED <<ServerVars, codec, validator>>

NextGift == GetGift

SpecGift == InitGift /\ [][NextGift]_vars

\* ------------------------------------------------------ the validator at work
\* validate_party applied to party records.  A record that follows the
\* PokemonRecord layout is written from a description of its Pokemon: a
\* number of valid Pokemon in front, then one Pokemon with the Pokemon fused
\* to it.  The other records are a valid record cut short, with one integer
\* field replaced, with a wrong count, or with fields left over.
MaxFused == 2
MaxLead == 1

BaseMon == [species |-> "PIKACHU", level |-> "5", owner_id |-> "65538",
            owner_name |-> "Ash", owner_gender |-> "0", form |-> "0",
            item |-> "", moves |-> << <<"THUNDERSHOCK", "0">> >>,
            first_moves |-> <<>>, gender |-> "0", ability |-> "STATIC",
            ivs |-> <<"31", "31", "31", "31", "31", "31">>,
            evs |-> <<"0", "0", "0", "0", "0", "0">>,
            happiness |-> "100", name |-> "Pika", poke_ball |-> "POKEBALL"]

\* lines 74-264: the fields of one Pokemon in the order they are read
MonFields(m, fused) ==
    <<m.species, m.level, "7", m.owner_id, m.owner_name, m.owner_gender, "0",
      m.form, m.item>>
    \o <<StrOf(Len(m.moves))>> \o Flatten(m.moves)
    \o <<StrOf(Len(m.first_moves))>> \o m.first_moves
    \o <<m.gender, "false", m.ability, "", "HARDY", "HARDY">>
    \o Flatten([i \in 1..6 |-> <<m.ivs[i], "", m.evs[i]>>])
    \o <<m.happiness, m.name, m.poke_ball, "0", "0",
         "0", "0", "", "0", "0",
         "0", "0", "0", "0", "0", "0",
         "0",
         "false", fused>>

\* lines 263-266: a Pokemon followed by the Pokemon fused to it
RECURSIVE ChainFields(_)
ChainFields(chain) ==
    IF chain = <<>> THEN <<>>
    ELSE MonFields(Head(chain), IF Tail(chain) = <<>> THEN "false" ELSE "true")
         \o ChainFields(Tail(chain))

\* lines 72 and 269: the count, then the Pokemon
PartyFields(lead, chain) ==
    <<StrOf(lead + 1)>>
    \o Flatten([i \in 1..lead |-> MonFields(BaseMon, "false")])
    \o ChainFields(chain)

\* a Pokemon with one value at the end of its range or beyond it, or with
\* one name that a table does not hold
Injected ==
    {[BaseMon EXCEPT !.species = x] : x \in {"MISSINGNO", "SMEARGLE"}}
    \cup {[BaseMon EXCEPT !.level = x] : x \in {"0", "1", "100", "101"}}
    \cup {[BaseMon EXCEPT !.owner_id = x] :
             x \in {"-1", "0", "4294967295", "4294967296"}}
    \cup {[BaseMon EXCEPT !.owner_gender = x] : x \in {"1", "2", "-1"}}
    \cup {[BaseMon EXCEPT !.owner_name = "ElevenChars"],
          [BaseMon EXCEPT !.name = "ElevenChars"],
          [BaseMon EXCEPT !.item = "MASTERKEY"],
          [BaseMon EXCEPT !.poke_ball = "MASTERKEY"],
          [BaseMon EXCEPT !.ability = "WONDERGUARD"],
          [BaseMon EXCEPT !.gender = "2"],
          [BaseMon EXCEPT !.species = "SMEARGLE", !.form = "1"]}
    \cup {[BaseMon EXCEPT !.moves = << <<"THUNDERSHOCK", x>> >>] :
             x \in {"-1", "3", "4"}}
    \cup {[BaseMon EXCEPT !.ivs[1] = x] : x \in {"-1", "0", "32"}}
    \cup {[BaseMon EXCEPT !.evs[6] = x] : x \in {"-1", "252", "253"}}
    \cup {[BaseMon EXCEPT !.evs = <<"252", "252", "5", "1", "0", "0">>],
          [BaseMon EXCEPT !.evs = <<"252", "252", "5", "2", "0", "0">>]}
    \cup {[BaseMon EXCEPT !.happiness = x] : x \in {"-1", "0", "255", "256"}}

\* a Pokemon of a species with its moves and first moves
MoveNames == {"", "THUNDERSHOCK", "TACKLE", "ZAPCANNON", "SPLASH"}

Movers ==
    {[BaseMon EXCEPT !.species = x, !.gender = IF x = "PORYGON" THEN "2" ELSE "0",
                     !.moves = << <<m, "0">> >>, !.first_moves = <<f>>] :
        x \in {"PIKACHU", "SMEARGLE", "PORYGON"}, m \in MoveNames, f \in MoveNames}

\* the Pokemon a fused chain goes on with
FusedMons == {BaseMon, [BaseMon EXCEPT !.level = "101"],
              [BaseMon EXCEPT !.species = "MISSINGNO"],
              [BaseMon EXCEPT !.owner_id = "4294967296"],
              [BaseMon EXCEPT !.evs[6] = "253"],
              [BaseMon EXCEPT !.moves = << <<"TACKLE", "0">> >>]}

Chains == {<<m>> : m \in {BaseMon} \cup Injected \cup Movers}
          \cup UNION {{<<m>> \o rest : m \in {BaseMon} \cup Injected,
                                       rest \in [1..n -> FusedMons]} :
                         n \in 1..(MaxFused - 1)}

GoodRecord == PartyFields(0, <<BaseMon>>)

\* the fields of GoodRecord that are read with record.int()
IntFields == {i \in DOMAIN GoodRecord : IsInt(GoodRecord[i])}

RawRecords ==
    {[kind |-> "truncated", record |-> SubSeq(GoodRecord, 1, n)] :
        n \in 0..(Len(GoodRecord) - 1)}
    \cup {[kind |-> "nonnumeric", record |-> [GoodRecord EXCEPT ![i] = x]] :
             i \in IntFields, x \in {"x", "true"}}
    \cup {[kind |-> "count", record |-> [GoodRecord EXCEPT ![1] = x]] :
             x \in {"-1", "0", "2", "100"}}
    \cup {[kind |-> "count", record |-> [GoodRecord EXCEPT ![i] = x]] :
             i \in {10, 13}, x \in {"-1", "0", "2", "100"}}
    \cup {[kind |-> "trailing", record |-> GoodRecord \o <<x>>] : x \in {"", "0"}}
    \cup {[kind |-> "empty", record |-> <<"0">>]}

\* a validator that was handed a record
Handed(kind, lead, chain, record) ==
    [pc |-> "record", kind |-> kind, lead |-> lead, chain |-> chain,
     record |-> record, left |-> <<>>, verdict |-> "none", exc |-> FALSE,
     err |-> FALSE]

InitValidate ==
    /\ InitServer
    /\ codec = NoCodec /\ gift = NoGift
    /\ validator \in
          {Handed("layout", lead, chain, PartyFields(lead, chain)) :
              lead \in 0..MaxLead, chain \in Chains}
          \cup {Handed(r.kind, 0, <<>>, r.record) : r \in RawRecords}

\* the validator after a run that ended with the cursor c
Done(c) == [validator EXCEPT !.pc = "done", !.left = c.f, !.exc = c.exc,
                             !.err = c.err, !.verdict = PartyVerdict(c)]

\* server.py:196 as commented out: self.valid_party(record)
Validate ==
    /\ validator.pc = "record"
    /\ validator' = Done(ValidatorRun(validator.record))
    /\ UNCHANGED <<ServerVars, codec, gift>>

NextValidate == Validate

SpecValidate == InitValidate /\ [][NextValidate]_vars

\* ------------------------------------------------------------ line framing
\* The read branch of loop on one socket whose find line found nobody
\* waiting, fed with every byte stream of at most MaxStream bytes in chunks
\* of at most MaxChunk bytes; gh records the bytes received and the lines
\* handed to the handlers.
MaxStream == 5
MaxChunk == 3

FramingBytes == {"a", "find", NL}

FramingChunks == UNION {[1..n -> FramingBytes] : n \in 1..MaxChunk}

InitFraming ==
    /\ loop_count = 2
    /\ rules_dir = StartDir
    /\ rules_files = find_changed_files(StartDir, <<>>).files
    /\ rules = load_rules_files(StartDir, find_changed_files(StartDir, <<>>).files)
    /\ clients = <<1>>
    /\ st = [s \in Sock |-> IF s = 1 THEN [NoState EXCEPT !.state = FindState(LineA)]
                             ELSE NoState]
    /\ sock = [s \in Sock |-> NoSocket]
    /\ naccepted = 1
    /\ errors = <<>> /\ writeable = <<>> /\ readable = <<>>
    /\ cur = NoSock
    /\ recv_buffer = <<>>
    /\ raised = ""
    /\ chunks = [s \in Sock |-> FramingChunks]
    /\ nevents = 2
    /\ codec = NoCodec /\ validator = NoParty /\ gift = NoGift
    /\ iterations = loop_count - 1
    /\ gh = [s \in Sock |-> IF s = 1
                             THEN [NoHistory EXCEPT
                                      !.tags = <<"Connecting", "Finding">>,
                                      !.find = FindState(LineA)]
                             ELSE NoHistory]
    /\ ev = [op |-> "Connecting", s |-> 1, msg |-> LineA, was |-> "Connecting",
             cands |-> <<>>, calls |-> <<>>, discs |-> <<>>]

FramingRead ==
    /\ raised = "" /\ cur = NoSock
    /\ 1 \in InMap(Machine)
    /\ \E recvd \in chunks[1] :
          /\ Len(gh[1].stream) + Len(recvd) <= MaxStream
          /\ Recv(1, recvd)
          /\ gh' = [gh EXCEPT ![1].stream = @ \o recvd]
    /\ UNCHANGED readable

FramingLine == DispatchLine(TRUE)

NextFraming == FramingRead \/ BufferPartial \/ FramingLine

SpecFraming == InitFraming /\ [][NextFraming]_vars


\* ================================================================== claims
Last(seq) == seq[Len(seq)]

InClients(s) == s \in Range(clients)

Rank(tag) == CASE tag = "Connecting" -> 1 [] tag = "Finding" -> 2
               [] tag = "Connected" -> 3

\* C1: pair symmetry.  Whenever a socket of the connection map is
\* Connected(b), b is another socket of the map and is Connected back to it;
\* and every connect call that returned normally left both sides Connected to
\* each other.
PairSymmetry ==
    /\ \A a \in Range(clients) :
          st[a].state.tag = "Connected" =>
              /\ st[a].state.peer # a
              /\ InClients(st[a].state.peer)
              /\ st[st[a].state.peer].state.tag = "Connected"
              /\ st[st[a].state.peer].state.peer = a
    /\ \A i \in DOMAIN ev.calls :
          ev.calls[i].ok =>
              /\ ev.calls[i].x # ev.calls[i].y
              /\ ev.calls[i].xafter = Connected(ev.calls[i].y)
              /\ ev.calls[i].yafter = Connected(ev.calls[i].x)

\* a find has just paired two connections, both still in the map
PairSymmetryWitness ==
    /\ ev.op = "Connecting" /\ Len(ev.calls) = 1 /\ ev.calls[1].ok
    /\ InClients(ev.calls[1].x) /\ InClients(ev.calls[1].y)
    /\ st[ev.calls[1].x].state.tag = "Connected"

\* C2: state monotonicity.  The tags a State object has taken are strictly
\* increasing in the order Connecting, Finding, Connected, and its current
\* tag is the last of them.
StateMonotone ==
    \A s \in Sock :
        /\ \A i, j \in DOMAIN gh[s].tags :
              i < j => Rank(gh[s].tags[i]) < Rank(gh[s].tags[j])
        /\ gh[s].tags # <<>> => st[s].state.tag = Last(gh[s].tags)

\* a connection went through all three states and then received more lines
StateMonotoneWitness ==
    \E s \in Sock : /\ gh[s].tags = <<"Connecting", "Finding", "Connected">>
                    /\ gh[s].relayed # <<>>

\* C3: no self match.  No connection is Connected to itself, connect is
\* never called with the same socket on both sides, and a find whose peer id
\* is the public id of its own id, sent when no other waiting connection
\* qualifies, leaves the connection Finding.
SelfSeeking(message) ==
    IsFind(message) /\ IntOf(message[3]) = IntOf(message[5]) % 65536

NoSelfMatch ==
    /\ \A s \in Sock : st[s].state.tag = "Connected" => st[s].state.peer # s
    /\ \A i \in DOMAIN ev.calls : ev.calls[i].x # ev.calls[i].y
    /\ (ev.op = "Connecting" /\ ev.was = "Connecting" /\ SelfSeeking(ev.msg)
        /\ ev.cands = <<>>)
       => (InClients(ev.s) /\ st[ev.s].state.tag = "Finding")

NoSelfMatchWitness ==
    /\ ev.op = "Connecting" /\ ev.was = "Connecting" /\ SelfSeeking(ev.msg)
    /\ ev.cands = <<>>
    /\ st[ev.s].state.tag = "Finding"

\* C4: pairing validity.  Every call of connect is made by the handler of a
\* find line of X, for a different connection Y that is in the map in state
\* Finding with public_id(Y.id) = X.peer_id and Y.peer_id = public_id(X.id);
\* X is Finding when a call returns normally; and two connections of the map
\* that are Connected to each other sent finds that satisfy the condition.
MutualFinds(fx, fy) ==
    /\ fy.id % 65536 = fx.peer_id
    /\ fy.peer_id = fx.id % 65536

FirstMatchOnly ==
    (ev.op = "Connecting" /\ ev.was = "Connecting" /\ ev.cands # <<>>)
    => /\ Len(ev.calls) = 1
       /\ ev.calls[1].ok
       /\ ev.calls[1].y \in Range(ev.cands)
       /\ ev.discs = <<>>
       /\ InClients(ev.s) /\ InClients(ev.calls[1].y)
       /\ st[ev.s].state = Connected(ev.calls[1].y)
       /\ st[ev.calls[1].y].state = Connected(ev.s)

\* C6: validation gate.  Every find line that took a connection to Finding
\* carries a party the validator accepts.
ValidationGate ==
    \A s \in Sock : gh[s].find.tag = "Finding" => validate_party(gh[s].find.party)

\* C7: relay is verbatim and ordered.  For connections A and B of the map
\* that are Connected to each other, everything ever appended to B's send
\* buffer is B's found record followed by the lines received from A while
\* Connected, in the order received, each exactly as received and followed by
\* one newline.
RECURSIVE Unlines(_)
Unlines(lines) ==
    IF lines = <<>> THEN <<>> ELSE Head(lines) \o <<NL>> \o Unlines(Tail(lines))

FirstRecord(bytes) == SubSeq(bytes, 1, NewlineAt(bytes))

RelayVerbatim ==
    \A a \in Range(clients) :
        st[a].state.tag = "Connected" =>
            LET b == st[a].state.peer
            IN  /\ Head(gh[b].enq) = "found"
                /\ gh[b].enq = FirstRecord(gh[b].enq) \o Unlines(gh[a].relayed)

\* both sides of a pair have relayed a line to the other
RelayVerbatimWitness ==
    \E a \in Range(clients) :
        /\ st[a].state.tag = "Connected"
        /\ gh[a].relayed # <<>>
        /\ gh[st[a].state.peer].relayed # <<>>

\* C8: line framing.  The lines handed to the handlers, each followed by a
\* newline, then the bytes not yet dispatched, are the byte stream received;
\* no dispatched line holds a newline; and once a chunk is processed the
\* receive buffer holds no newline, so that k newlines received have caused
\* exactly k handler invocations whatever the chunking was.
Pending == IF cur = NoSock THEN st[1].recv_buffer ELSE recv_buffer

Newlines(bytes) == Cardinality({i \in DOMAIN bytes : bytes[i] = NL})

LineFraming ==
    /\ Unlines(gh[1].lines) \o Pending = gh[1].stream
    /\ \A i \in DOMAIN gh[1].lines : Newlines(gh[1].lines[i]) = 0
    /\ cur = NoSock => /\ Newlines(st[1].recv_buffer) = 0
                       /\ Len(gh[1].lines) = Newlines(gh[1].stream)

\* two lines have been dispatched, the first of two bytes, and the bytes of a
\* partial third line are kept in the receive buffer
LineFramingWitness ==
    /\ cur = NoSock
    /\ Len(gh[1].lines) = 2
    /\ gh[1].lines[1] = <<"find", "a">>
    /\ st[1].recv_buffer # <<>>
    /\ ev.op = "partial"

\* C9: peer drop propagation.  When a disconnect call is made for a
\* connection in state Connected(B), then at the end of the call B is out of
\* the map, B's socket has been sent the record disconnect,peer disconnected
\* and B's socket is closed.
EndsWith(bytes, tail) ==
    /\ Len(bytes) >= Len(tail)
    /\ SubSeq(bytes, Len(bytes) - Len(tail) + 1, Len(bytes)) = tail

PeerDropPropagates ==
    (ev.discs # <<>> /\ ev.discs[1].was = "Connected")
    => LET b == ev.discs[1].peer
       IN  /\ ~InClients(ev.discs[1].s) /\ ~InClients(b)
           /\ EndsWith(sock[b].wire, DisconnectRecord("peer disconnected"))
           /\ sock[b].closed

\* C10: client failures never stop the loop.  loop raises only when the
\* listener is in the errors list.
LoopSurvivesClients == raised \in {"", "error on listening socket"}

\* C11: disconnect idempotence.  In every state the loop reaches, a
\* disconnect call for a socket that is not in the connection map leaves the
\* map, every State (state, send buffer, receive buffer) and every socket as
\* they are and disconnects no peer; and two disconnect calls in a row for
\* any socket leave what one call leaves.  The calls are made with a reason
\* that is a string or an exception object, and with all sockets working or
\* all broken.
Reasons == {"unknown error", ExcObj}

SameMachine(M1, M2) ==
    M1.clients = M2.clients /\ M1.st = M2.st /\ M1.sock = M2.sock

\* D is what one disconnect call for s leaves
NoOpWhenAbsent(D, s) ==
    s \notin Range(clients) => SameMachine(D, Machine) /\ Len(D.discs) = 1

SecondIsNoOp(D, s, reason, bad) == SameMachine(disconnect(D, s, reason, bad), D)

DisconnectIdempotent ==
    \A s \in Sock, reason \in Reasons, bad \in {{}, Range(clients)} :
        /\ NoOpWhenAbsent(disconnect(Machine, s, reason, bad), s)
        /\ SecondIsNoOp(disconnect(Machine, s, reason, bad), s, reason, bad)

\* the loop has just called disconnect for a socket that had left the map
\* earlier in the same tick
DisconnectIdempotentWitness ==
    /\ ev.op = "error" /\ Len(ev.discs) = 1
    /\ ev.discs[1].was = "absent"
    /\ sock[ev.s].closed

\* C12: found record content.  Every connect call that returns normally has
\* appended exactly one record to the send buffer of each side: "found", the
\* side number (1 for the caller X, 0 for the waiting Y), the name, trainer
\* type, win text, lose text and party fields of the other side, the number
\* of rules, the fields of every rule, and a newline; and it has written
\* nothing to any socket.
IsFoundRecord(rec, number, other) ==
    LET np == Len(other.party)
    IN  /\ Len(rec) = 6 + np + 1 + Len(Flatten(rules)) + 1
        /\ SubSeq(rec, 1, 6) = <<"found", StrOf(number), other.name,
                                 other.trainertype, StrOf(other.win_text),
                                 StrOf(other.lose_text)>>
        /\ SubSeq(rec, 7, 6 + np) = other.party
        /\ rec[7 + np] = StrOf(Len(rules))
        /\ SubSeq(rec, 8 + np, Len(rec) - 1) = Flatten(rules)
        /\ rec[Len(rec)] = NL

Appended(before, after) == SubSeq(after, Len(before) + 1, Len(after))

FoundRecordContent ==
    \A i \in DOMAIN ev.calls :
        LET c == ev.calls[i]
        IN  c.ok =>
              /\ IsPrefix(c.xbuf, c.xbufafter) /\ IsPrefix(c.ybuf, c.ybufafter)
              /\ IsFoundRecord(Appended(c.xbuf, c.xbufafter), 1, c.ybefore)
              /\ IsFoundRecord(Appended(c.ybuf, c.ybufafter), 0, FindState(ev.msg))
              /\ ~c.wrote

\* two players with different names and parties have just been paired
FoundRecordContentWitness ==
    /\ ev.op = "Connecting" /\ Len(ev.calls) = 1 /\ ev.calls[1].ok
    /\ ev.calls[1].ybefore.name # FindState(ev.msg).name
    /\ ev.calls[1].ybefore.party # FindState(ev.msg).party
    /\ st[ev.s].send_buffer # <<>>

\* C13: reload atomicity.  The rule list of the server is always the whole
\* result of one load of one state of the rules directory; and the two
\* records of every pairing end with the same rule part, which is the number
\* of rules of that list followed by the fields of all its rules.
OneLoad(list) ==
    \E D \in DirStates : D.isdir /\ list = load_rules_files(D, DirHash(D))

RulesPart(rec, party) == SubSeq(rec, 7 + Len(party), Len(rec) - 1)

ReloadAtomic ==
    /\ OneLoad(rules)
    /\ \A i \in DOMAIN ev.calls :
          LET c == ev.calls[i]
              xrules == RulesPart(Appended(c.xbuf, c.xbufafter), c.ybefore.party)
              yrules == RulesPart(Appended(c.ybuf, c.ybufafter), FindState(ev.msg).party)
          IN  c.ok =>
                /\ xrules = yrules
                /\ \E D \in DirStates :
                      /\ D.isdir
                      /\ xrules = <<StrOf(Len(D.files))>>
                                  \o Flatten(load_rules_files(D, DirHash(D)))

\* a pairing made after a reload: the records carry the two rules of the
\* changed directory
ReloadAtomicWitness ==
    /\ ev.op = "Connecting" /\ Len(ev.calls) = 1 /\ ev.calls[1].ok
    /\ rules_files = DirHash(TwoDir)
    /\ Len(rules) = 2

\* C14: no match leaves everything untouched.  A step in which a Connecting
\* connection sends a find line while no waiting connection satisfies the
\* mutual condition changes no send buffer, writes to no socket, removes
\* nobody from the map, leaves the state of every other connection as it
\* was, and leaves the sender Finding with the data of its line.
NoMatchStep ==
    /\ ev'.op = "Connecting" /\ ev'.was = "Connecting"
    /\ IsFind(ev'.msg) /\ ev'.cands = <<>>

NoMatchFrame ==
    [][NoMatchStep =>
          /\ \A s \in Sock : st'[s].send_buffer = st[s].send_buffer
          /\ \A s \in Sock \ {ev'.s} : st'[s] = st[s]
          /\ st'[ev'.s].state = FindState(ev'.msg)
          /\ clients' = clients /\ sock' = sock
          /\ ev'.calls = <<>> /\ ev'.discs = <<>>]_vars

\* a player whose id the newcomer seeks, but who seeks somebody else, is
\* waiting; both are Finding after the find of the newcomer and neither has
\* been sent anything
NoMatchFrameWitness ==
    /\ ev.op = "Connecting" /\ ev.was = "Connecting"
    /\ IsFind(ev.msg) /\ ev.cands = <<>>
    /\ InClients(ev.s) /\ st[ev.s].state.tag = "Finding"
    /\ \E t \in Range(clients) \ {ev.s} :
          /\ st[t].state.tag = "Finding"
          /\ st[t].state.id % 65536 = st[ev.s].state.peer_id
          /\ gh[t].enq = <<>>
    /\ gh[ev.s].enq = <<>>

\* C15: codec round trip, as claimed.  Parsing the line written for any
\* sequence of fields, the empty sequence included, yields the sequence.
CodecRoundTrip == codec.pc = "parsed" => codec.fields = codec.F

\* C15, amended: codec round trip of the records that have a field.  Parsing
\* the line written for a sequence of one or more fields yields the
\* sequence; the line written for no field is the empty line, which parses
\* as one empty field.
CodecRoundTripNonEmpty ==
    codec.pc = "parsed" =>
        /\ codec.F # <<>> => codec.fields = codec.F
        /\ codec.F = <<>> => codec.line = <<>> /\ codec.fields = << <<>> >>

\* a record of two fields, one of them a comma and a backslash, went through
\* the writer and the parser
CodecRoundTripNonEmptyWitness ==
    /\ codec.pc = "parsed"
    /\ Len(codec.F) = 2
    /\ codec.F[1] = <<Comma, Backslash>>
    /\ Len(codec.line) > 3

\* C16: byte-perfect party relay.  The party part of the found record is
\* the party part of the find line, character by character.
PartyRelayExact == codec.pc = "found" => codec.line = codec.text

\* C17: disconnect always closes the socket.  Every disconnect call of a
\* step, made for a socket that was in the map, has removed the socket from
\* the map and closed it, and a socket that was Connected has had its peer
\* removed as well, whatever became of the final record.
DisconnectCloses ==
    \A i \in DOMAIN ev.discs :
        ev.discs[i].was # "absent" =>
            /\ ~InClients(ev.discs[i].s)
            /\ sock[ev.discs[i].s].closed
            /\ ev.discs[i].was = "Connected" => ~InClients(ev.discs[i].peer)

\* C18: a malformed find never reaches Finding.  A step in which the
\* Connecting handler gets a line that is not a find line with integer peer
\* id, id, win text and lose text makes exactly one disconnect call, for the
\* sender, with reason "bad assert" when the first field is not "find" and
\* "server error" otherwise; after it the sender is not in the map and is
\* still Connecting, and no State of another connection, no send buffer and
\* no pairing has changed.
WellFormedFind(fields) ==
    /\ Len(fields) >= 8
    /\ fields[1] = "find"
    /\ \A i \in {3, 5, 7, 8} : IsInt(fields[i])

MalformedStep == ev'.op = "Connecting" /\ ~WellFormedFind(RecordParser(ev'.msg))

MalformedFindRejected ==
    [][MalformedStep =>
          /\ Len(ev'.discs) = 1
          /\ ev'.discs[1].s = ev'.s
          /\ ev'.discs[1].reason = IF RecordParser(ev'.msg)[1] # "find"
                                   THEN "bad assert" ELSE "server error"
          /\ ev'.s \notin Range(clients')
          /\ st'[ev'.s] = st[ev'.s]
          /\ st'[ev'.s].state.tag = "Connecting"
          /\ \A s \in Sock \ {ev'.s} : st'[s] = st[s]
          /\ \A s \in Range(clients) \ {ev'.s} : s \in Range(clients')
          /\ ev'.calls = <<>>]_vars

\* a find line with a peer id that is no integer has just been rejected
\* while the player it would have matched was waiting
MalformedFindRejectedWitness ==
    /\ ev.op = "Connecting" /\ ev.was = "Connecting"
    /\ ev.msg = LineBadInt
    /\ ev.discs # <<>> /\ ev.discs[1].reason = "server error"
    /\ ~InClients(ev.s)
    /\ \E t \in Range(clients) : st[t].state.tag = "Finding"

\* C19: matching uses the low 16 bits of the trainer id.  In every state
\* the loop reaches, for every Connecting connection of the map, two find
\* lines that differ only in the bits of the id above bit 15 have the same
\* outcome: the same connect calls, the same map, sockets, send buffers and
\* state tags and peers; and a find line whose peer id is outside 0..65535
\* is never answered by a connect call.
Outcome(M) ==
    [clients |-> M.clients, sock |-> M.sock,
     buf |-> [t \in Sock |-> M.st[t].send_buffer],
     tag |-> [t \in Sock |-> M.st[t].state.tag],
     peer |-> [t \in Sock |-> IF M.st[t].state.tag = "Connected"
                              THEN M.st[t].state.peer ELSE NoSock],
     calls |-> [i \in DOMAIN M.calls |-> <<M.calls[i].x, M.calls[i].y, M.calls[i].ok>>],
     discs |-> M.discs]

SameLowBits == {<<LineA, LineALow>>, <<LineB, LineBLow>>}

LowBitsOnly ==
    /\ \A s \in Range(clients) :
          st[s].state.tag = "Connecting" =>
              /\ \A p \in SameLowBits :
                    Outcome(Dispatch(Machine, s, p[1], {})) =
                    Outcome(Dispatch(Machine, s, p[2], {}))
              /\ Dispatch(Machine, s, LineBig, {}).calls = <<>>
    /\ (ev.op = "Connecting" /\ WellFormedFind(ev.msg)
        /\ IntOf(ev.msg[3]) \notin 0..65535)
       => ev.calls = <<>>

\* a find that seeks the whole id 65538 has been handled while the player
\* with that id, who seeks the public id of the sender, was waiting
LowBitsOnlyWitness ==
    /\ ev.op = "Connecting" /\ ev.was = "Connecting" /\ ev.msg = LineBig
    /\ InClients(ev.s) /\ st[ev.s].state.tag = "Finding"
    /\ \E t \in Range(clients) :
          /\ st[t].state.tag = "Finding"
          /\ st[t].state.id = 65538
          /\ st[t].state.peer_id = 42

\* C20: Finding ignores input.  A step in which a line of a connection in
\* state Finding is handled changes no State (state, stored find data, send
\* and receive buffers) of any connection, not the map and no socket, and
\* makes no connect and no disconnect call.
FindingIgnoresInput ==
    [][ev'.op = "Finding" =>
          /\ st' = st /\ clients' = clients /\ sock' = sock
          /\ \A s \in Sock : gh'[s].find = gh[s].find /\ gh'[s].enq = gh[s].enq
          /\ ev'.calls = <<>> /\ ev'.discs = <<>>]_vars

\* a waiting connection has sent a second find line, which a waiting player
\* would have matched
FindingIgnoresInputWitness ==
    /\ ev.op = "Finding" /\ WellFormedFind(ev.msg)
    /\ InClients(ev.s) /\ st[ev.s].state.tag = "Finding"
    /\ st[ev.s].state.peer_id # IntOf(ev.msg[3])
    /\ \E t \in Range(clients) :
          Qualifies(ev.s, IntOf(ev.msg[3]), IntOf(ev.msg[5]), t)

\* C27: the send buffer is a FIFO under partial sends.  For every connection
\* in the map, the bytes the write phase has passed to its socket followed by
\* the bytes left in its send buffer are all the bytes ever enqueued to it, in
\* enqueue order: what was sent is a prefix of what was enqueued, and no byte
\* is sent twice or skipped.  A connection of the map that is in the
\* writeable list has a send buffer that is not empty.
SendBufferFifo ==
    \A s \in Range(clients) :
        /\ gh[s].enq = gh[s].sent \o st[s].send_buffer
        /\ IsPrefix(gh[s].sent, gh[s].enq)
        /\ s \in Range(writeable) => st[s].send_buffer # <<>>

\* a send has accepted a part of the buffer only, and the rest is kept
SendBufferFifoWitness ==
    /\ ev.op = "write" /\ ev.msg # <<>> /\ InClients(ev.s)
    /\ st[ev.s].send_buffer # <<>>
    /\ gh[ev.s].sent = ev.msg
    /\ Len(gh[ev.s].enq) > Len(ev.msg)

\* C29: no missed rendezvous.  Between two handler invocations, no two
\* distinct connections of the map are both in state Finding with each one's
\* peer id equal to the public id of the other.
NoMissedRendezvous ==
    \A x, y \in Range(clients) :
        x # y /\ st[x].state.tag = "Finding" /\ st[y].state.tag = "Finding"
            => ~MutualFinds(st[x].state, st[y].state)

\* the second of two mutually seeking players has sent its find, and the
\* two are paired
NoMissedRendezvousWitness ==
    /\ ev.op = "Connecting" /\ ev.was = "Connecting" /\ Len(ev.cands) = 1
    /\ InClients(ev.s) /\ InClients(ev.cands[1])
    /\ st[ev.s].state = Connected(ev.cands[1])
    /\ st[ev.cands[1]].state = Connected(ev.s)
    /\ MutualFinds(gh[ev.s].find, gh[ev.cands[1]].find)

\* C30: found comes first.  The send buffer of every connection of the map
\* in state Connecting or Finding is empty and nothing was ever enqueued to
\* it; the bytes ever enqueued to a connection start with a found record;
\* and the lines relayed to a connection are in its send buffer history
\* after that record.
FoundComesFirst ==
    \A s \in Range(clients) :
        /\ st[s].state.tag \in {"Connecting", "Finding"} =>
              st[s].send_buffer = <<>> /\ gh[s].enq = <<>>
        /\ gh[s].enq # <<>> => /\ Head(gh[s].enq) = "found"
                               /\ IsPrefix(<<"found", "0">>, gh[s].enq)
                                  \/ IsPrefix(<<"found", "1">>, gh[s].enq)
        /\ \A a \in Range(clients) :
              st[a].state = Connected(s) /\ gh[a].relayed # <<>> =>
                 /\ FirstRecord(gh[s].enq) # <<>>
                 /\ Head(FirstRecord(gh[s].enq)) = "found"
                 /\ gh[s].enq = FirstRecord(gh[s].enq) \o Unlines(gh[a].relayed)

\* the newcomer sent its find and a line in one chunk: its peer has the
\* found record and then that line
FoundComesFirstWitness ==
    \E a, b \in Range(clients) :
        /\ a # b /\ st[a].state = Connected(b) /\ st[b].state = Connected(a)
        /\ chunks[a] = {Line(LineA) \o Line(LineMsg)}
        /\ gh[a].relayed = <<LineMsg>>
        /\ gh[b].enq = FirstRecord(gh[b].enq) \o Line(LineMsg)
        /\ Head(gh[b].enq) = "found"

\* C25: rule refresh cadence.  With the loop iterations numbered from 1,
\* find_changed_files is called in iteration k exactly when k is a multiple
\* of RULES_REFRESH_RATE (60); the loop counter is in 1..60 when an iteration
\* starts; and the rule list and the file map are replaced only in an
\* iteration in which the call reported a change, and left as they are in
\* every other iteration.
RefreshCadence ==
    [][ev'.op = "select" =>
          /\ DetectorInvoked <=> (iterations' % 60 = 0)
          /\ loop_count \in 1..60 /\ loop_count' \in 1..60
          /\ (rules' # rules \/ rules_files' # rules_files) =>
                /\ DetectorInvoked
                /\ find_changed_files(rules_dir, rules_files).changed
                /\ rules' = load_rules_files(rules_dir, DirHash(rules_dir))
          /\ ~(DetectorInvoked /\ find_changed_files(rules_dir, rules_files).changed)
                => rules' = rules /\ rules_files' = rules_files]_vars

\* the second refresh tick, iteration 120, has replaced the rules
RefreshCadenceWitness ==
    /\ ev.op = "select" /\ iterations = 2 * RULES_REFRESH_RATE
    /\ loop_count = 1
    /\ rules_files = DirHash(TwoDir) /\ Len(rules) = 2

\* C26: rule change detection.  At a refresh tick, when the rules directory
\* exists find_changed_files reports a change exactly when the file names of
\* the directory are not the names of the previous map or a name of both has
\* another modification time, and then it returns the map of the directory;
\* when it reports no change, or the directory does not exist, it returns
\* the previous map and the tick keeps the rule list and the file map.
NamesOf(files_hash) == {files_hash[i].name : i \in DOMAIN files_hash}

TimeOf(files_hash, name) ==
    {files_hash[i].mtime : i \in {j \in DOMAIN files_hash : files_hash[j].name = name}}

Differ(old, new) ==
    \/ NamesOf(old) # NamesOf(new)
    \/ \E name \in NamesOf(old) \cap NamesOf(new) : TimeOf(old, name) # TimeOf(new, name)

ChangeDetection ==
    [][ev'.op = "select" /\ DetectorInvoked =>
          /\ rules_dir.isdir =>
                /\ find_changed_files(rules_dir, rules_files).changed
                      <=> Differ(rules_files, rules_dir.files)
                /\ find_changed_files(rules_dir, rules_files).changed =>
                      /\ NamesOf(rules_files') = NamesOf(rules_dir.files)
                      /\ \A name \in NamesOf(rules_files') :
                            TimeOf(rules_files', name) = TimeOf(rules_dir.files, name)
          /\ ~rules_dir.isdir => ~find_changed_files(rules_dir, rules_files).changed
          /\ ~find_changed_files(rules_dir, rules_files).changed =>
                /\ find_changed_files(rules_dir, rules_files).files = rules_files
                /\ rules_files' = rules_files /\ rules' = rules]_vars

\* the first tick found the one file of the start directory with another
\* modification time, and a later tick found the directory gone
ChangeDetectionWitness ==
    /\ ev.op = "select" /\ iterations = 2 * RULES_REFRESH_RATE
    /\ rules_dir = NoDir
    /\ rules_files = DirHash(TouchedDir)
    /\ rules = load_rules_files(TouchedDir, DirHash(TouchedDir))

\* the day count of a date of the model, for comparing dates
DayNumber(d) == d[1] * 372 + d[2] * 31 + d[3]

IsDate(d) == d \in Days

\* the interval of gift file f is an interval of dates and today is in it
Contains(f, today) ==
    /\ IsDate(f.initDate) /\ IsDate(f.lastDate)
    /\ DayNumber(f.initDate) <= DayNumber(today)
    /\ DayNumber(today) <= DayNumber(f.lastDate)

\* the body the level rule picks in the sections g, none when g is empty
Picked(g, nivel) ==
    IF DOMAIN g = {} THEN None
    ELSE IF nivel \in DOMAIN g THEN Body(g[nivel])
    ELSE IF \E l \in DOMAIN g : l <= nivel
    THEN Body(g[CHOOSE l \in DOMAIN g :
                   l <= nivel /\ \A k \in DOMAIN g : k <= nivel => k <= l])
    ELSE Body(g[CHOOSE l \in DOMAIN g : \A k \in DOMAIN g : k <= l])

\* C24: gift level selection.  The answer to a request is the body the level
\* rule (the body of level nivel, else of the highest level <= nivel, else of
\* the highest level) picks in the first gift file, in scan order, whose
\* interval contains today, and none when no file's interval contains today.
GiftFirstInterval ==
    gift.pc = "answered" =>
        IF \E i \in DOMAIN gift.gifts_data : Contains(gift.gifts_data[i], gift.today)
        THEN LET first == CHOOSE i \in DOMAIN gift.gifts_data :
                             /\ Contains(gift.gifts_data[i], gift.today)
                             /\ \A j \in 1..(i - 1) :
                                   ~Contains(gift.gifts_data[j], gift.today)
             IN  gift.result = Picked(gift.gifts_data[first].gifts, gift.level)
        ELSE gift.result = None

\* C24, amended: the file chosen is the first one, in scan order, whose
\* interval contains today and that defines at least one level; the answer is
\* the body the level rule picks in it, and none when there is no such file.
Serves(f, today) == Contains(f, today) /\ DOMAIN f.gifts # {}

GiftFirstServing ==
    gift.pc = "answered" =>
        IF \E i \in DOMAIN gift.gifts_data : Serves(gift.gifts_data[i], gift.today)
        THEN LET first == CHOOSE i \in DOMAIN gift.gifts_data :
                             /\ Serves(gift.gifts_data[i], gift.today)
                             /\ \A j \in 1..(i - 1) :
                                   ~Serves(gift.gifts_data[j], gift.today)
             IN  /\ gift.result.found
                 /\ gift.result = Picked(gift.gifts_data[first].gifts, gift.level)
        ELSE gift.result = None

\* a request for level 3 on the last day of two files that both serve it:
\* the answer is the body of level 2 of the first file
GiftFirstServingWitness ==
    /\ gift.pc = "answered" /\ gift.level = 3 /\ gift.today = <<2026, 3, 1>>
    /\ Len(gift.gifts_data) = 2
    /\ gift.gifts_data[1].lastDate = gift.today
    /\ DOMAIN gift.gifts_data[1].gifts = {2, 5}
    /\ Serves(gift.gifts_data[2], gift.today)
    /\ DOMAIN gift.gifts_data[2].gifts = {1}
    /\ gift.result = Body("two")

\* the Pokemon of the record the validator was handed
MonsOf(v) == Range(v.chain) \cup (IF v.lead > 0 THEN {BaseMon} ELSE {})

Judged == validator.pc = "done" /\ validator.kind = "layout"

\* C21: validator field discipline.  On a record that follows the
\* PokemonRecord layout the validator reads every field whatever checks
\* fail: it ends without an exception and with no field left, and it reports
\* fail when a check failed.
FieldDiscipline ==
    Judged => /\ ~validator.exc
              /\ validator.left = <<>>
              /\ validator.err => validator.verdict = "fail"

\* the value of a numeral is in lo..hi
Within32(f, lo, hi) == IsInt(f) /\ ~IsWide(f) /\ lo <= IntOf(f) /\ IntOf(f) <= hi

RECURSIVE SumOf(_)
SumOf(fs) == IF fs = <<>> THEN 0 ELSE IntOf(Head(fs)) + SumOf(Tail(fs))

InBounds(m) ==
    /\ Within32(m.level, 1, 100)
    /\ \A i \in 1..6 : Within32(m.ivs[i], 0, 31) /\ Within32(m.evs[i], 0, 252)
    /\ SumOf(m.evs) \in 0..510
    /\ Within32(m.happiness, 0, 255)
    /\ \A i \in DOMAIN m.moves : Within32(m.moves[i][2], 0, 3)
    /\ Within32(m.owner_gender, 0, 1)
    /\ IsInt(m.owner_id) /\ HighWord(m.owner_id) \in 0..65535

\* C22: validator numeric bounds.  A party passes only if every Pokemon of
\* it, the fused ones included, has its level in 1..100, each IV in 0..31,
\* each EV in 0..252, the sum of its EVs in 0..510, its happiness in 0..255,
\* every pp-up count in 0..3, owner gender 0 or 1 and owner id in 0..2^32-1.
NumericBounds ==
    Judged /\ validator.verdict = "pass" => \A m \in MonsOf(validator) : InBounds(m)

\* a party passed with a fused Pokemon and the EV sum 510
NumericBoundsWitness ==
    /\ Judged /\ validator.verdict = "pass"
    /\ Len(validator.chain) = 2
    /\ validator.chain[1].evs = <<"252", "252", "5", "1", "0", "0">>

\* names of the species table with SKETCH in their move set
Sketchers == {x \in SpeciesNames : "SKETCH" \in pokemon_by_name(x).moves}

MovesOfMon(m) == {m.moves[i][1] : i \in DOMAIN m.moves} \cup Range(m.first_moves)

\* C23: validator move rule.  A party passes only if every non-empty move
\* name of the current moves and the first moves of its Pokemon is in the
\* global move table and, unless the move set of the species holds SKETCH,
\* in the move set of the species.
MoveRule ==
    Judged /\ validator.verdict = "pass" =>
        \A m \in MonsOf(validator) : \A move \in MovesOfMon(m) \ {""} :
            /\ move \in move_syms
            /\ m.species \in Sketchers \/ move \in pokemon_by_name(m.species).moves

\* C28: the validator always ends with a verdict.  For every record, cut
\* short, with a wrong count, with a field that is no integer where one is
\* read, or with fused Pokemon, validate_party returns pass or fail and
\* raises nothing; a record that runs out of fields or has such a field
\* fails, and a record passes only when it was read to its end.
AlwaysVerdict ==
    validator.pc = "done" =>
        /\ validator.verdict \in {"pass", "fail"}
        /\ validator.kind \in {"truncated", "nonnumeric", "trailing"} =>
              validator.verdict = "fail"
        /\ validator.exc => validator.verdict = "fail"
        /\ validator.verdict = "pass" => validator.left = <<>>

\* the record ran out of fields in the middle of the stats of its Pokemon
AlwaysVerdictWitness ==
    /\ validator.pc = "done" /\ validator.kind = "truncated"
    /\ Len(validator.record) = 30
    /\ validator.exc /\ validator.left = <<>> /\ validator.verdict = "fail"

\* ------------------------------------------------------------------ C31
\* C31: the disconnect record never overtakes pending output: when the
\* disconnect of a connection wrote its disconnect record (and closed the
\* socket), every byte that had been enqueued in the send buffer of the
\* connection reached the socket before, so the send buffer the connection
\* leaves behind is empty.
DisconnectAfterOutput ==
    \A s \in Sock :
        (s \notin Range(clients) /\ sock[s].closed) =>
            /\ gh[s].sent = gh[s].enq
            /\ st[s].send_buffer = <<>>

\* ------------------------------------------------------------------ C32
\* C32: lines after a disconnect are inert: when a complete line of a recv
\* chunk is dispatched for a connection that an earlier line of the chunk
\* removed from the map, the step changes no connection that is still in
\* the map: the map keeps its sockets, and every connection of the map keeps
\* its state, its buffers and the bytes on its socket, so no waiting client
\* is paired with the removed connection.
LinesAfterDisconnectInert ==
    [][ ( /\ cur # NoSock /\ cur \notin Range(clients)
          /\ ev'.op \in {"Connecting", "Finding", "Connected"} )
        => /\ clients' = clients
           /\ \A x \in Range(clients) : st'[x] = st[x] /\ sock'[x] = sock[x]
      ]_vars

\* a well-formed find of a removed connection was dispatched while a client
\* that seeks it was waiting, and the connect call it made failed
LinesAfterDisconnectInertWitness ==
    /\ ev.op = "Connecting" /\ ev.was = "absent"
    /\ IsFind(ev.msg) /\ ev.cands # <<>>
    /\ Len(ev.calls) = 1 /\ ~ev.calls[1].ok
    /\ ev.calls[1].y \in Range(clients)
    /\ st[ev.calls[1].y].state.tag = "Finding"

\* ------------------------------------------------------------------ C33
\* the sockets a disconnect call logged as d takes out of the map
Gone(d) ==
    CASE d.was = "Connected" -> {d.s, d.peer}
      [] d.was = "absent"    -> {}
      [] OTHER               -> {d.s}

\* C33: disconnect scope and termination: a step that does nothing but
\* disconnect(s) for a connection of the map ends after one call when s was
\* Connecting or Finding and after three calls (s, its peer, and s again as
\* a no-op) when s was Connected; it removes exactly s, or exactly s and its
\* peer, from the map, and every other connection keeps its place in the
\* map, its state, its buffers and the bytes on its socket.
DisconnectScope ==
    [][ ( /\ ev'.discs # <<>> /\ ev'.calls = <<>>
          /\ ev'.discs[1].was # "absent" )
        => LET d == ev'.discs[1]
           IN  /\ Gone(d) \subseteq Range(clients)
               /\ Cardinality(Gone(d)) = IF d.was = "Connected" THEN 2 ELSE 1
               /\ clients' = SelectSeq(clients, LAMBDA x : x \notin Gone(d))
               /\ \A x \in Range(clients') :
                      st'[x] = st[x] /\ sock'[x] = sock[x]
               /\ Len(ev'.discs) = IF d.was = "Connected" THEN 3 ELSE 1
      ]_vars

\* a Connected connection was disconnected: it and its peer left the map
\* and a third connection is still there
DisconnectScopeWitness ==
    /\ ev.discs # <<>> /\ ev.calls = <<>>
    /\ ev.discs[1].was = "Connected"
    /\ ev.discs[1].s \notin Range(clients)
    /\ ev.discs[1].peer \notin Range(clients)
    /\ clients # <<>>

\* ------------------------------------------------------------------ C34
\* C34: pairing touches only the pair: every connect call a find line makes
\* leaves the connection map and the State of every third connection as
\* they were, and a find step whose call connect(X, Y) paired X with Y
\* leaves every third connection, another waiting connection that also
\* satisfied the match condition included, with its state, its buffers, the
\* bytes on its socket and its place in the connection map.
PairingFrame ==
    [][ (ev'.op = "Connecting" /\ ev'.calls # <<>>)
        => /\ \A i \in DOMAIN ev'.calls : ev'.calls[i].frame
           /\ ev'.calls[1].ok =>
                LET pair == {ev'.calls[1].x, ev'.calls[1].y}
                IN  /\ \A z \in Range(clients) \ pair :
                          /\ z \in Range(clients')
                          /\ st'[z] = st[z]
                          /\ sock'[z] = sock[z]
                    /\ SelectSeq(clients', LAMBDA z : z \notin pair)
                          = SelectSeq(clients, LAMBDA z : z \notin pair)
      ]_vars

\* X was paired with Y while a second waiting connection also satisfied the
\* match condition; that connection is still waiting in the map
PairingFrameWitness ==
    /\ ev.op = "Connecting" /\ ev.calls # <<>> /\ ev.calls[1].ok
    /\ Len(ev.cands) >= 2
    /\ \E z \in Range(ev.cands) \ {ev.calls[1].y} :
          z \in Range(clients) /\ st[z].state.tag = "Finding"
                               /\ st[z].send_buffer = <<>>

=============================================================================
